---- MODULE Spec2Model ----
(***************************************************************************)
(* A model of the real-time communication layer of the NeonPro assistant:  *)
(*   - AGUIProtocol / AGUISession (agui_protocol.py) with the handlers     *)
(*     NeonProDataAgent registers on it (main.py);                         *)
(*   - WebSocketManager (services/websocket_manager.py).                   *)
(* Every asyncio task is a process; a step of the model is the code a task *)
(* runs between two suspension points.  No assumption is made about the    *)
(* relative speed of tasks or of the clock.                                *)
(*                                                                         *)
(* Construction of an outbound AGUIEvent is modelled as succeeding.  As    *)
(* declared (agui_protocol.py:53-70) the dataclass field timestamp has no  *)
(* default, although __post_init__ fills in a missing one, and send_message,*)
(* send_error, heartbeat and create_session (lines 165, 178, 192, 240)     *)
(* omit it: run as written each of these constructions raises TypeError    *)
(* and create_session fails before a session exists.  The model describes  *)
(* the protocol with the field defaulted as __post_init__ intends; what it *)
(* establishes about sessions is established under that reading.           *)
(*                                                                         *)
(* AgUiRagAgent (ag-ui-rag-agent/src/agent.py) is modelled with its session*)
(* cache and the stored session rows.  agent.py imports datetime and       *)
(* timedelta only and uses timezone at lines 250, 255, 268, 534 and 573:   *)
(* run as written each of these raises NameError, so no session is ever    *)
(* created or cached.  The model describes the agent with timezone         *)
(* imported, as database.py does.                                          *)
(***************************************************************************)
EXTENDS Integers, Sequences, FiniteSets, TLC

(* ------------------------------ bounds -------------------------------- *)
\* connections (one handle_websocket call each; the session id is the connection's)
NumConns == 2
\* inbound frames received over all connections
MaxFrames == 2
\* firings of the 30 s heartbeat timer over all sessions
MaxBeats == 1
\* the clock advances in steps of TickMinutes up to MaxNow minutes
TickMinutes == 30
MaxNow == 60
\* cleanup sweeps started
MaxSweeps == 1
\* fan-out calls (broadcast_to_all, send_to_user) started
MaxFanouts == 1
\* websockets handed to WebSocketManager.connect
NumSockets == 3
\* process_query calls in flight at once
NumCalls == 2
\* turns appended to conversation histories, over all sessions
MaxTurns == 12
\* the serialized event data handed to encrypt: texts of 1..MaxText symbols of
\* SymbolBits bits each
MaxText == 3
SymbolBits == 2
\* broadcast calls of the WebSocketManager; messages written to one websocket
MaxBroadcasts == 1
MaxSent == 2
\* WebSocketManager(max_connections=...)
max_connections == 2

NumDocs == 3
ClockStep == 200
MaxPhoneLen == 9
MaxLocalLen == 3
MaxClock == 400
MaxLimit == 2

(* ------------------------- program constants -------------------------- *)
\* cleanup_inactive_sessions(max_inactive_minutes=30)
max_inactive_minutes == 30

Conns == 1..NumConns

Socks == 1..NumSockets

QueryCalls == 1..NumCalls

\* The session ids callers pass to process_query
SessionIds == {"s1", "s2"}

\* _update_session_context, line 528: the turns a conversation_history keeps
HistoryCap == 10

VARIABLES
    sessions,        \* AGUIProtocol.sessions: the registered session ids, in insertion order
    pc,              \* handle_websocket's position for each connection
    ws,              \* the transport of each connection
    state,           \* AGUISession.state
    last_activity,   \* AGUISession.last_activity  (minutes)
    message_count,   \* AGUISession.message_count
    hb,              \* the heartbeat task of each session
    todo,            \* the handler calls _handle_event has still to make, each with its event
    received,        \* history: the frames receive_text returned, per connection
    sent,            \* history: the frames send_text wrote, per connection
    now,             \* datetime.now()  (minutes)
    beats,           \* heartbeat timer firings so far
    nframes,         \* frames received so far, over all connections
    sweep,           \* the running cleanup_inactive_sessions call
    \* WebSocketManager
    active_connections,   \* client id -> websocket, in insertion order
    connection_metadata,  \* the client ids that have a metadata entry
    wsock,                \* each websocket handed to the manager: what was done to it
    cpc,                  \* the position of the connect call made for each websocket
    \* AGUIProtocol, continued
    user_id,         \* AGUISession.user_id
    fanout,          \* the running broadcast_to_all / send_to_user call
    \* the process the protocol runs in
    loop,            \* the connection whose handler holds the event loop's thread in a
                     \* datastore call that does not await, 0 when none does
    store,           \* the datastore: "up", or "down" when its calls raise
    \* AgUiRagAgent (ag-ui-rag-agent/src/agent.py)
    agent_sessions,      \* the in-memory session cache: session id -> its context's
                         \* conversation_history
    rag_agent_sessions,  \* the stored session rows: session id -> the row's
                         \* conversation_history
    qcall,               \* the position of each process_query call
    appended,            \* history: turns appended to each session's conversation_history
    \* AGUISession.send_event on the wire
    wire,                \* the frame send_event wrote that is in flight, with the data given
    decoded,             \* what the peer's decrypt made of that frame's data, << >> before
    \* WebSocketManager, continued
    bcast,               \* the running broadcast call
    ping_task,           \* WebSocketManager.ping_task
    closer,              \* the running close_all_connections call
    \* the vector index (ag-ui-rag-agent/src/database.py, vector_store.py)
    embeddings,          \* the rows of the embedding table, in insertion order
    retrieved,           \* the last retrieval: its call, its arguments and what it returned
    \* DatabaseService (services/ai-agent/services/database_service.py)
    cache,               \* DatabaseService._cache: cache key -> (data, timestamp)
    clock,               \* datetime.now() in seconds
    served,              \* what the last search_patients call returned, and how
    \* NeonProDataAgent's HTTP endpoints (ag-ui-rag-agent/main.py)
    posted,              \* the last POST /agui/broadcast: its admin_key, the server's
                         \* ADMIN_API_KEY and what became of it
    \* HealthcareDataService (ag-ui-rag-agent/healthcare_data_service.py)
    shown,               \* the contact fields of the last formatted row: who asked,
                         \* the stored values and the values put into the result
    \* intent detection (services/ai-agent/services/agent_service.py, main.py)
    classified,          \* the last classified text, the function that did it, its result
    \* AgUiRagAgent (src/agent.py): its websocket registry and its initialization
    rag_connections,     \* AgUiRagAgent.active_connections: session id -> websocket, 0 for no entry
    rpc,                 \* per websocket: where handle_websocket_connection is, and its session id
    initialized,         \* AgUiRagAgent._initialized
    initialization_lock, \* the call holding _initialization_lock, 0 when it is free
    started,             \* how often _start_background_tasks created the two cleanup tasks
    icall                \* per initialize call: where it is, the steps it ran, the warm-up's outcome

protoVars == <<sessions, pc, ws, state, last_activity, message_count, hb, todo,
               received, sent, now, beats, nframes, sweep>>

wsmVars == <<active_connections, connection_metadata, wsock, cpc>>

fanVars == <<user_id, fanout>>

\* What the protocol's connection steps leave alone, and what the manager's do
envVars == <<loop, store>>

agentVars == <<agent_sessions, rag_agent_sessions, qcall, appended>>

wireVars == <<wire, decoded>>

wsmOpVars == <<bcast, ping_task, closer>>

retrVars == <<embeddings, retrieved>>

\* The state of the services beside the protocol, the manager and the agent
cacheVars == <<cache, clock, served>>

httpVars == <<posted>>

maskVars == <<shown>>

intentVars == <<classified>>

ragVars == <<rag_connections, rpc, initialized, initialization_lock, started, icall>>

svcVars == <<retrVars, cacheVars, httpVars, maskVars, intentVars, ragVars>>

restVars == <<wsmVars, fanVars, envVars, agentVars, wireVars, wsmOpVars, svcVars>>

\* What handle_websocket and the fan-outs leave alone
outerVars == <<wsmVars, envVars, agentVars, wireVars, wsmOpVars, svcVars>>

nonWsmVars == <<protoVars, fanVars, envVars, agentVars, wireVars, wsmOpVars, svcVars>>

\* What the manager's calls leave alone
otherVars == <<protoVars, fanVars, envVars, agentVars, wireVars, svcVars>>

\* What a fan-out started over HTTP leaves alone beside the services
baseOuterVars == <<wsmVars, envVars, agentVars, wireVars, wsmOpVars>>

\* What the services leave alone
baseVars == <<protoVars, wsmVars, fanVars, envVars, agentVars, wireVars, wsmOpVars>>

vars == <<protoVars, wsmVars, fanVars, envVars, agentVars, wireVars, wsmOpVars, svcVars>>

(* ------------------------------ frames -------------------------------- *)
\* Inbound wire frames.  "bad_json" is text json.loads rejects, "bad_type" names a
\* type AGUIEventType lacks, "non_object" is valid JSON that is not an object
\* (a list, a string, null).  A session_update frame with content "bad" carries a
\* context that dict.update rejects.
Queries == {"q1", "q2"}
Frame(kind, content) == [kind |-> kind, content |-> content, encrypted |-> "no"]

\* A frame marked encrypted: its data is ciphertext that decrypts to content
\* (payload "ok"), or text that decrypt or json.loads rejects (payload "bad")
EncryptedFrame(kind, content, payload) ==
    [kind |-> kind, content |-> content, encrypted |-> payload]
Frames ==
    { Frame("message", q) : q \in Queries \cup {""} }
    \cup { Frame("session_update", x) : x \in {"ok", "bad"} }
    \cup { Frame(k, "") : k \in {"connection", "heartbeat", "feedback", "action",
                                 "bad_json", "bad_type", "non_object"} }

\* An inbound frame as the AGUIEvent the loop builds, k its index in receive order
\* When the decryption of a frame marked encrypted fails the failure is logged
\* and event.data stays the undecrypted text (data "str").
Event(k, f) ==
    [k |-> k, kind |-> f.kind, content |-> f.content,
     data |-> IF f.encrypted = "bad" THEN "str" ELSE "dict"]

NoEvent == [type |-> "none", body |-> "", re |-> 0]

\* Outbound events: type, body (the message content or the error code), and re, the
\* index of the inbound event whose handling emitted it (0: none).  The timestamp
\* is taken to default to time.time(), see the note at the head of the module.
Out(type, body, re) == [type |-> type, body |-> body, re |-> re]

(* ------------------------ the handler registry ------------------------ *)
register_handler(reg, event_type, handler) ==
    [reg EXCEPT ![event_type] = Append(@, handler)]

EventTypes == {"connection", "message", "response", "error", "heartbeat", "action",
               "session_update", "feedback", "stream_start", "stream_chunk",
               "stream_end"}

register_default_handlers ==
    LET r0 == [t \in EventTypes |-> << >>]
        r1 == register_handler(r0, "connection", "handle_connection")
        r2 == register_handler(r1, "heartbeat", "handle_heartbeat")
        r3 == register_handler(r2, "message", "handle_message")
    IN  register_handler(r3, "feedback", "handle_feedback")

\* NeonProDataAgent.setup_agui_handlers on top of the defaults
event_handlers ==
    register_handler(register_default_handlers, "session_update", "handle_session_update")

message_handlers == << "handle_agui_message" >>

\* (mutant) the message handlers are called before the handlers of the type
HandlersFor_MessageFirst(kind) ==
    (IF kind = "message" THEN message_handlers ELSE << >>) \o event_handlers[kind]

\* _handle_event: the handlers called for an event, in call order
HandlersFor(kind) ==
    event_handlers[kind] \o (IF kind = "message" THEN message_handlers ELSE << >>)

\* The calls _handle_event makes for event ev
Calls(ev) ==
    [i \in 1..Len(HandlersFor(ev.kind)) |-> [h |-> HandlersFor(ev.kind)[i], ev |-> ev]]

(* ----------------------------- helpers -------------------------------- *)
InRegistry(c) == \E i \in 1..Len(sessions) : sessions[i] = c

Remove(seq, c) == SelectSeq(seq, LAMBDA x : x # c)

\* (mutant) a send never raises
SendOK_Always(c) == TRUE

\* websocket.send_text succeeds on an open transport and raises otherwise
SendOK(c) == ws[c] = "open"

\* (mutant) the dispatch is started but not awaited
AwaitingReceive_NotAwaited(c) == pc[c] \in {"recv", "handling"}

\* The receive loop is at receive_text: it awaited _handle_event for the previous
\* frame, so no handler call is pending
AwaitingReceive(c) == pc[c] = "recv"

\* (mutant) the counter is not advanced
CountAfterSend_Unchanged(n) == n

\* AGUISession.send_event, line 157
CountAfterSend(n) == n + 1

\* _parse_healthcare_intent: "q1" is a query about appointments, clients or
\* finances, which is answered from the datastore; "q2" names no known intent and
\* gets the help text
NeedsDatastore(q) == q = "q1"

\* (mutant) the except clause is missing: the exception leaves the service
query_upcoming_appointments_Uncaught ==
    IF store = "down" THEN "raised" ELSE "appointments_list"

\* HealthcareDataService.query_upcoming_appointments: the type of the card it
\* returns.  A datastore call that raises is caught and becomes an error card.
query_upcoming_appointments ==
    IF store = "down" THEN "error" ELSE "appointments_list"

\* _format_appointments_response: the text made of a card
format_appointments_response(card) ==
    IF card = "error" THEN "reply:q1:unavailable" ELSE "reply:q1"

\* process_healthcare_query: the reply content computed from the query.  What
\* is raised inside it becomes the apology of its except clause.
process_healthcare_query(q) ==
    CASE q = "q1" -> LET data == query_upcoming_appointments
                     IN  IF data = "raised" THEN "reply:apology"
                         ELSE format_appointments_response(data)
      [] q = "q2" -> "reply:q2"
      [] OTHER -> "reply:?"

\* (mutant) except ValueError placed first: it also catches JSONDecodeError
ParseErrorCode_ValueErrorFirst(f) ==
    IF f.kind \in {"bad_json", "bad_type"} THEN "INVALID_EVENT_TYPE" ELSE ""

\* What json.loads / AGUIEventType(...) make of a frame in handle_websocket:
\* the error code sent back, or "" when the frame parses
ParseErrorCode(f) ==
    CASE f.kind = "bad_json" -> "INVALID_FORMAT"
      [] f.kind = "bad_type" -> "INVALID_EVENT_TYPE"
      [] OTHER -> ""

\* message_data.get on a value that is not a dict: AttributeError, which neither
\* except clause of the receive loop catches
EscapesLoop(f) == f.kind = "non_object"

\* A handler raising before it sends anything
HandlerRaises(h, ev) ==
    h = "handle_session_update" /\ (ev.content = "bad" \/ ev.data = "str")

\* The event a handler sends, NoEvent when it sends none
HandlerEmits(h, ev) ==
    CASE h = "handle_connection" -> NoEvent
      [] h = "handle_heartbeat" -> Out("heartbeat", "", ev.k)
      [] h = "handle_message" -> Out("response", "Message received", ev.k)
      [] h = "handle_feedback" -> Out("response", "Feedback received", ev.k)
      [] h = "handle_session_update" ->
            IF HandlerRaises(h, ev) THEN NoEvent
            ELSE Out("response", "Session updated", ev.k)
      [] h = "handle_agui_message" ->
            IF ev.data = "str" THEN Out("error", "PROCESSING_ERROR", ev.k)
            ELSE IF ev.content = "" THEN Out("error", "EMPTY_QUERY", ev.k)
            ELSE Out("response", process_healthcare_query(ev.content), ev.k)
      [] OTHER -> NoEvent

(* ------------------------------- Init --------------------------------- *)
\* No broadcast call is running
NoBroadcast ==
    [pc |-> "idle", by |-> "", used |-> 0, visited |-> {}, disconnected |-> << >>,
     raised |-> {}, delivered |-> {}, n |-> 0]

\* WebSocketManager.__init__
InitWSM ==
    /\ active_connections = << >>
    /\ connection_metadata = {}
    /\ wsock = [w \in Socks |->
                  [accepted |-> FALSE, alive |-> TRUE, close_code |-> 0,
                   close_reason |-> "", sent |-> << >>, closes |-> 0]]
    /\ cpc = [w \in Socks |-> [at |-> "idle", client_id |-> ""]]
    /\ bcast = NoBroadcast
    /\ ping_task = "none"
    /\ closer = [pc |-> "idle", todo |-> << >>, registered |-> {}]

\* No fan-out call is running
NoFanout ==
    [pc |-> "idle", kind |-> "all", target |-> "", used |-> 0, visited |-> {},
     tried |-> {}, failed |-> {}, targets |-> {}, n |-> 0]

\* Nothing was sent yet
NoWire == [type |-> "none", data |-> << >>, encrypted |-> FALSE, given |-> << >>]

\* No retrieval has returned yet
NoResults == [call |-> "none", tenant |-> "", tenant_id |-> "", limit |-> 0, results |-> << >>]

\* request.get("admin_key") of a request without the key, and os.getenv of a
\* variable that is not set: None
NoKey == "None"

\* No broadcast request has come in
NothingPosted == [admin_key |-> NoKey, configured |-> NoKey, status |-> "none"]

\* A call of initialize that has not been made
NotCalled == [at |-> "idle", ran |-> << >>, warm |-> FALSE]

\* AgUiRagAgent.__init__
InitRag ==
    /\ rag_connections = [sid \in SessionIds |-> 0]
    /\ rpc = [w \in Socks |-> [at |-> "idle", session_id |-> ""]]
    /\ initialized = FALSE
    /\ initialization_lock = 0
    /\ started = 0
    /\ icall = [k \in 1..NumCalls |-> NotCalled]

\* No text has been classified
NothingClassified == [by |-> "none", text |-> {}, intent |-> ""]

\* No row has been formatted
NothingShown ==
    [op |-> "none", role |-> "", phone |-> << >>, email |-> << >>,
     out_phone |-> << >>, out_email |-> << >>]

\* The patients table: two patients of the same name in two clinics
PatientRows ==
    << [id |-> 1, full_name |-> "ana", clinic_id |-> "c1"],
       [id |-> 2, full_name |-> "ana", clinic_id |-> "c2"] >>

\* The names asked for (nobody is called "bia"), the clinics, and the context
\* without a clinic_id
PatientNames == {"ana", "bia"}
Clinics == {"c1", "c2"}
NoClinic == "None"

\* f"patients_{name}_{limit}"
cache_key(name, limit) == <<"patients", name, limit>>

CacheKeys == { cache_key(name, limit) : name \in PatientNames, limit \in 1..MaxLimit }

\* The key is not in the cache.  An entry is the tuple (data, timestamp); context
\* is history, the clinic scope of the request that stored it.
NoEntry == [data |-> << >>, timestamp |-> -1, context |-> ""]

\* No search_patients call has returned
NothingServed ==
    [name |-> "", limit |-> 0, clinic |-> "", rows |-> << >>, outcome |-> "none",
     stored_for |-> "", age |-> 0]

\* No process_query call is running in this slot
IdleCall == [at |-> "idle", session_id |-> "", result |-> "none"]

Init ==
    /\ InitWSM
    /\ user_id = [c \in Conns |-> ""]
    /\ fanout = NoFanout
    /\ loop = 0
    /\ store = "up"
    /\ agent_sessions = << >>
    /\ rag_agent_sessions = << >>
    /\ qcall = [q \in QueryCalls |-> IdleCall]
    /\ appended = [sid \in SessionIds |-> 0]
    /\ wire = NoWire
    /\ decoded = << >>
    /\ embeddings = << >>
    /\ retrieved = NoResults
    /\ cache = [k \in CacheKeys |-> NoEntry]
    /\ clock = 0
    /\ served = NothingServed
    /\ posted = NothingPosted
    /\ shown = NothingShown
    /\ classified = NothingClassified
    /\ InitRag
    /\ sessions = << >>
    /\ pc = [c \in Conns |-> "new"]
    /\ ws = [c \in Conns |-> "open"]
    /\ state = [c \in Conns |-> "none"]
    /\ last_activity = [c \in Conns |-> 0]
    /\ message_count = [c \in Conns |-> 0]
    /\ hb = [c \in Conns |-> "none"]
    /\ todo = [c \in Conns |-> << >>]
    /\ received = [c \in Conns |-> << >>]
    /\ sent = [c \in Conns |-> << >>]
    /\ now = 0
    /\ beats = 0
    /\ nframes = 0
    /\ sweep = [pc |-> "idle", inactive |-> << >>, stale |-> {}, n |-> 0]

(* ------------------------------ actions ------------------------------- *)
\* (mutant) the activity stamp is written before the send is tried
ActivityAfterFailure_Stamped(t) == now

\* AGUISession.send_event, lines 159-161: the except clause logs and re-raises,
\* the assignment of line 156 was not reached
ActivityAfterFailure(t) == t

\* AGUISession.send_event of event e on connection c: the three session fields
\* after a successful send, unchanged after a failed one
SendEvent(c, e) ==
    IF SendOK(c)
    THEN /\ sent' = [sent EXCEPT ![c] = Append(@, e)]
         /\ last_activity' = [last_activity EXCEPT ![c] = now]
         /\ message_count' = [message_count EXCEPT ![c] = CountAfterSend(@)]
    ELSE /\ last_activity' = [last_activity EXCEPT ![c] = ActivityAfterFailure(@)]
         /\ UNCHANGED <<sent, message_count>>

\* (mutant) the finally clause leaves the task alone
CancelTask_Missing(task) == task

\* heartbeat_task.cancel(): a task still running is cancelled, a finished one is
\* left as it ended
CancelTask(task) == IF task = "running" THEN "cancelled" ELSE task

\* (mutant) the finally clause leaves the registry alone
DropSession_Kept(c) == sessions

\* handle_websocket's finally: del self.sessions[session.session_id] when it is there
DropSession(c) == Remove(sessions, c)

\* The finally clause of handle_websocket, and the endpoint returning
Finalize(c) ==
    /\ hb' = [hb EXCEPT ![c] = CancelTask(@)]
    /\ sessions' = DropSession(c)
    /\ pc' = [pc EXCEPT ![c] = "done"]
    /\ ws' = [ws EXCEPT ![c] = "closed"]
    /\ todo' = [todo EXCEPT ![c] = << >>]

\* The peer goes away: from now on the transport fails
ClientDisconnect(c) ==
    /\ ws[c] = "open"
    /\ pc[c] # "done"
    /\ ws' = [ws EXCEPT ![c] = "broken"]
    /\ UNCHANGED <<sessions, pc, state, last_activity, message_count, hb, todo,
                   received, sent, now, beats, nframes, sweep>>

\* (mutant) the session announces itself with a heartbeat event
ConnectionEvent_Heartbeat == Out("heartbeat", "", 0)

\* create_session: the event sent first, type CONNECTION with status 'connected',
\* the session id, the protocol version and the encryption scheme
ConnectionEvent == Out("connection", "connected", 0)

\* handle_websocket up to the first receive_text: create_session, heartbeat task
Connect(c) ==
    /\ pc[c] = "new"
    /\ IF SendOK(c)
       THEN /\ SendEvent(c, ConnectionEvent)
            /\ sessions' = Append(sessions, c)
            /\ state' = [state EXCEPT ![c] = "connected"]
            /\ hb' = [hb EXCEPT ![c] = "running"]
            /\ pc' = [pc EXCEPT ![c] = "recv"]
            /\ UNCHANGED ws
       ELSE /\ pc' = [pc EXCEPT ![c] = "done"]
            /\ ws' = [ws EXCEPT ![c] = "closed"]
            /\ UNCHANGED <<sessions, state, hb, sent, last_activity, message_count>>
    /\ UNCHANGED <<todo, received, now, beats, nframes, sweep>>

\* The user ids a caller passes to handle_websocket
Users == {"u1", "u2"}

UserIds == Users \cup {"", " "}

\* handle_websocket(websocket, user_id): the session object carries the user id
HandleWebsocket(c, u) ==
    /\ Connect(c)
    /\ user_id' = [user_id EXCEPT ![c] = u]
    /\ UNCHANGED fanout

\* str.strip() on the user ids of UserIds: the id of blanks strips to the empty
\* string, the others have no blanks around them
strip(u) == IF u = " " THEN "" ELSE u

\* (mutant) the id is not stripped before it is tested
validate_user_NoStrip(u) == u # ""

\* NeonProDataAgent.validate_user: bool(user_id and user_id.strip())
validate_user(u) == u # "" /\ strip(u) # ""

\* websocket_endpoint: accept, then handle_websocket for a user id that passes
\* validate_user, and close(code=4000, reason="Authentication failed") for one
\* that does not
WebsocketEndpoint(c, u) ==
    IF validate_user(u)
    THEN HandleWebsocket(c, u)
    ELSE /\ pc[c] = "new"
         /\ pc' = [pc EXCEPT ![c] = "refused"]
         /\ ws' = [ws EXCEPT ![c] = IF SendOK(c) THEN "closed_4000" ELSE @]
         /\ UNCHANGED <<sessions, state, last_activity, message_count, hb, todo,
                        received, sent, now, beats, nframes, sweep, fanVars>>

\* One turn of the receive loop up to the dispatch: receive_text returns frame f
\* (on a broken transport: a frame that had arrived before the peer went away)
Receive(c, f) ==
    /\ AwaitingReceive(c)
    /\ pc[c] \notin {"new", "done"}
    /\ ws[c] \in {"open", "broken"}
    /\ nframes < MaxFrames
    /\ nframes' = nframes + 1
    /\ received' = [received EXCEPT ![c] = Append(@, f)]
    /\ LET ev == Event(Len(received[c]) + 1, f) IN
       IF EscapesLoop(f)
       THEN /\ Finalize(c)
            /\ UNCHANGED <<state, last_activity, message_count, sent>>
       ELSE IF ParseErrorCode(f) # ""
       THEN \* send_error from the except clause; a failed send leaves the loop
            /\ SendEvent(c, Out("error", ParseErrorCode(f), ev.k))
            /\ IF SendOK(c)
               THEN UNCHANGED <<sessions, pc, ws, hb, todo>>
               ELSE Finalize(c)
            /\ UNCHANGED state
       ELSE \* _handle_event: the activity stamp, then the handlers
            /\ last_activity' = [last_activity EXCEPT ![c] = now]
            /\ todo' = [todo EXCEPT ![c] = @ \o Calls(ev)]
            /\ pc' = [pc EXCEPT ![c] =
                         IF todo[c] \o Calls(ev) = << >> THEN "recv" ELSE "handling"]
            /\ UNCHANGED <<sessions, ws, hb, state, message_count, sent>>
    /\ UNCHANGED <<now, beats, sweep>>

\* _handle_event makes its next handler call; what the handler raises is logged
\* and dropped
RunHandler(c) ==
    /\ pc[c] = "handling"
    /\ todo[c] # << >>
    /\ LET h == Head(todo[c]).h
           e == HandlerEmits(h, Head(todo[c]).ev)
       IN  /\ IF e # NoEvent
              THEN SendEvent(c, e)
              ELSE UNCHANGED <<sent, last_activity, message_count>>
           /\ state' = [state EXCEPT ![c] =
                          IF h = "handle_connection" THEN "authenticated" ELSE @]
    /\ todo' = [todo EXCEPT ![c] = Tail(@)]
    /\ pc' = [pc EXCEPT ![c] = IF Len(todo[c]) = 1 THEN "recv" ELSE "handling"]
    /\ UNCHANGED <<sessions, ws, hb, received, now, beats, nframes, sweep>>

\* receive_text raises on a transport that is gone
Disconnect(c) ==
    /\ pc[c] = "recv"
    /\ ws[c] \in {"broken", "closed"}
    /\ Finalize(c)
    /\ UNCHANGED <<state, last_activity, message_count, received, sent, now, beats,
                   nframes, sweep>>

\* (mutant) the loop breaks after every heartbeat
AfterBeat_AlwaysBreaks(delivered) == "stopped"

\* _heartbeat_loop after session.heartbeat(): the loop goes on, or breaks when the
\* send raised
AfterBeat(delivered) == IF delivered THEN "running" ELSE "stopped"

\* _heartbeat_loop: the sleep ends and session.heartbeat() runs; a failed send
\* ends the loop
HeartbeatTick(c) ==
    /\ hb[c] = "running"
    /\ beats < MaxBeats
    /\ beats' = beats + 1
    /\ SendEvent(c, Out("heartbeat", "", 0))
    /\ hb' = [hb EXCEPT ![c] = AfterBeat(SendOK(c))]
    /\ UNCHANGED <<sessions, pc, ws, state, todo, received, now, nframes, sweep>>

\* The clock
Tick ==
    /\ now + TickMinutes <= MaxNow
    /\ now' = now + TickMinutes
    /\ UNCHANGED <<sessions, pc, ws, state, last_activity, message_count, hb, todo,
                   received, sent, beats, nframes, sweep>>

\* cleanup_inactive_sessions, the test of its first loop
Inactive(s) == (now - last_activity[s]) > max_inactive_minutes

\* The sessions of the list whose close() the sweep can call without an error:
\* a session that has left the registry raises KeyError, close() raises on a
\* transport that is gone; the except clause logs either and the loop goes on
RECURSIVE SkipFailing(_)
SkipFailing(list) ==
    IF list = << >> THEN << >>
    ELSE IF InRegistry(Head(list)) /\ ws[Head(list)] = "open" THEN list
    ELSE SkipFailing(Tail(list))

\* The second loop of cleanup_inactive_sessions runs on over list until a close()
\* suspends it, or to its end
CloseNext(list) ==
    LET l == SkipFailing(list) IN
    IF l = << >>
    THEN /\ sweep' = [sweep EXCEPT !.pc = "idle", !.inactive = << >>]
         /\ UNCHANGED ws
    ELSE /\ sweep' = [sweep EXCEPT !.pc = "closing", !.inactive = l]
         /\ ws' = [ws EXCEPT ![Head(l)] = "closed"]

\* cleanup_inactive_sessions is called: the first loop (no suspension point in
\* it), then the second loop up to its first suspension
CleanupScan ==
    /\ sweep.pc = "idle"
    /\ sweep.n < MaxSweeps
    /\ LET found == SelectSeq(sessions, Inactive)
           l == SkipFailing(found)
       IN  /\ sweep' = [pc |-> IF l = << >> THEN "idle" ELSE "closing",
                        inactive |-> l,
                        stale |-> { found[i] : i \in 1..Len(found) },
                        n |-> sweep.n + 1]
           /\ ws' = IF l = << >> THEN ws ELSE [ws EXCEPT ![Head(l)] = "closed"]
    /\ UNCHANGED <<sessions, pc, state, last_activity, message_count, hb, todo,
                   received, sent, now, beats, nframes>>

\* The awaited close() returns: del self.sessions[session_id] (KeyError when the
\* receive loop removed the session meanwhile), then the loop goes on
CleanupResume ==
    /\ sweep.pc = "closing"
    /\ sessions' = Remove(sessions, Head(sweep.inactive))
    /\ CloseNext(Tail(sweep.inactive))
    /\ UNCHANGED <<pc, state, last_activity, message_count, hb, todo,
                   received, sent, now, beats, nframes>>

(* ------------------- broadcast_to_all, send_to_user ------------------- *)
\* The event the caller hands to a fan-out
FanoutEvent == Out("message", "broadcast", 0)

\* send_to_user's filter; broadcast_to_all has none
Targeted(fo, s) == fo.kind = "all" \/ user_id[s] = fo.target

\* The elements of seq up to and including the first s
UpTo(seq, s) == { seq[i] : i \in { j \in 1..Len(seq) : \A k \in 1..(j - 1) : seq[k] # s } }

\* The for-loop over self.sessions.values() from one resumption to its next
\* suspension in send_event.  The dict iterator raises RuntimeError when the dict
\* has another size than at its creation, and otherwise yields the entries it has
\* not passed yet, in insertion order; a send that fails is logged.
FanoutSend(fo) ==
    LET rest == SelectSeq(sessions, LAMBDA s : s \notin fo.visited)
        hits == SelectSeq(rest, LAMBDA s : Targeted(fo, s))
    IN  IF Len(sessions) # fo.used
        THEN /\ fanout' = [fo EXCEPT !.pc = "raised"]
             /\ UNCHANGED <<sent, last_activity, message_count>>
        ELSE IF hits = << >>
        THEN /\ fanout' = [fo EXCEPT !.pc = "returned"]
             /\ UNCHANGED <<sent, last_activity, message_count>>
        ELSE /\ SendEvent(Head(hits), FanoutEvent)
             /\ fanout' = [fo EXCEPT !.pc = "sending",
                                     !.visited = @ \cup UpTo(rest, Head(hits)),
                                     !.tried = @ \cup {Head(hits)},
                                     !.failed = IF SendOK(Head(hits)) THEN @
                                                ELSE @ \cup {Head(hits)}]

\* broadcast_to_all(event) (kind "all") or send_to_user(u, event) (kind "user") is called
FanoutStart(kind, u) ==
    /\ fanout.pc \in {"idle", "returned", "raised"}
    /\ fanout.n < MaxFanouts
    /\ FanoutSend([pc |-> "idle", kind |-> kind, target |-> u, used |-> Len(sessions),
                   visited |-> {}, tried |-> {}, failed |-> {},
                   targets |-> { s \in Conns : InRegistry(s) /\ (kind = "all" \/ user_id[s] = u) },
                   n |-> fanout.n + 1])
    /\ UNCHANGED <<sessions, pc, ws, state, hb, todo, received, now, beats, nframes,
                   sweep, user_id>>

\* The send returns and the loop goes on
FanoutResume ==
    /\ fanout.pc = "sending"
    /\ FanoutSend(fanout)
    /\ UNCHANGED <<sessions, pc, ws, state, hb, todo, received, now, beats, nframes,
                   sweep, user_id>>

(* ------------------- AgUiRagAgent: websocket connections --------------- *)
\* The finally clause of handle_websocket_connection: the entry of the session id
\* is deleted when there is one, whichever websocket it holds
RagCleanup(sid) == [rag_connections EXCEPT ![sid] = 0]

\* handle_websocket_connection(websocket, session_id) is called and is suspended
\* in websocket.accept()
RagConnect(w, sid) ==
    /\ rpc[w].at = "idle"
    /\ rpc' = [rpc EXCEPT ![w] = [at |-> "accepting", session_id |-> sid]]
    /\ UNCHANGED <<rag_connections, initialized, initialization_lock, started, icall>>
    /\ UNCHANGED <<baseVars, retrVars, cacheVars, httpVars, maskVars, intentVars>>

\* accept() returns and the websocket is stored under the session id, or accept()
\* raises, which the except clause logs before the finally clause runs
RagAccepted(w) ==
    /\ rpc[w].at = "accepting"
    /\ \E accepted \in BOOLEAN :
         IF accepted
         THEN /\ rag_connections' = [rag_connections EXCEPT ![rpc[w].session_id] = w]
              /\ rpc' = [rpc EXCEPT ![w].at = "open"]
         ELSE /\ rag_connections' = RagCleanup(rpc[w].session_id)
              /\ rpc' = [rpc EXCEPT ![w].at = "done"]
    /\ UNCHANGED <<initialized, initialization_lock, started, icall>>
    /\ UNCHANGED <<baseVars, retrVars, cacheVars, httpVars, maskVars, intentVars>>

\* The receive loop, which leaves active_connections alone, ends with
\* WebSocketDisconnect or another exception, and the finally clause runs
RagDisconnect(w) ==
    /\ rpc[w].at = "open"
    /\ rag_connections' = RagCleanup(rpc[w].session_id)
    /\ rpc' = [rpc EXCEPT ![w].at = "done"]
    /\ UNCHANGED <<initialized, initialization_lock, started, icall>>
    /\ UNCHANGED <<baseVars, retrVars, cacheVars, httpVars, maskVars, intentVars>>

(* ---------------------- AgUiRagAgent: initialization -------------------- *)
\* The steps of initialize in the order of its body
InitSteps ==
    << "db_manager", "embedding_manager", "vector_store", "ai_clients", "warm_up",
       "background_tasks" >>

\* The steps whose exception leaves initialize: _warm_up_components and
\* _start_background_tasks catch what is raised inside them and return
RaisingSteps == {"db_manager", "embedding_manager", "vector_store", "ai_clients"}

\* (mutant) initialize does not take the lock
Locked_Never == FALSE

\* _initialization_lock is held
Locked == initialization_lock # 0

\* 'async with self._initialization_lock' has let call k in: it returns at once
\* when _initialized is set and starts on the steps otherwise
Entered(k) ==
    IF initialized
    THEN /\ icall' = [icall EXCEPT ![k] = [NotCalled EXCEPT !.at = "returned"]]
         /\ UNCHANGED initialization_lock
    ELSE /\ icall' = [icall EXCEPT ![k] = [NotCalled EXCEPT !.at = "running"]]
         /\ initialization_lock' = k

\* initialize() is called, at startup (direct) or by process_query, which calls
\* it only while _initialized is false; a call made again after one that raised
\* starts afresh.  With the lock held the call waits.
Initialize(k, direct) ==
    /\ icall[k].at \in {"idle", "raised"}
    /\ direct \/ ~initialized
    /\ IF Locked
       THEN /\ icall' = [icall EXCEPT ![k] = [NotCalled EXCEPT !.at = "waiting"]]
            /\ UNCHANGED initialization_lock
       ELSE Entered(k)
    /\ UNCHANGED <<initialized, started, rag_connections, rpc>>
    /\ UNCHANGED <<baseVars, retrVars, cacheVars, httpVars, maskVars, intentVars>>

\* The lock is released and a waiting call gets it
InitializeResume(k) ==
    /\ icall[k].at = "waiting"
    /\ ~Locked
    /\ Entered(k)
    /\ UNCHANGED <<initialized, started, rag_connections, rpc>>
    /\ UNCHANGED <<baseVars, retrVars, cacheVars, httpVars, maskVars, intentVars>>

\* The call holding the lock runs its next step.  A step that raises ends the
\* call with the exception, the lock is released on the way out and _initialized
\* stays false; a warm-up that fails is logged inside _warm_up_components; the
\* last step creates the two cleanup tasks, after which _initialized is set
\* without another suspension.
InitializeStep(k) ==
    /\ icall[k].at = "running"
    /\ LET step == InitSteps[Len(icall[k].ran) + 1] IN
       \E ok \in BOOLEAN :
          IF ~ok /\ step \in RaisingSteps
          THEN /\ icall' = [icall EXCEPT ![k].at = "raised"]
               /\ initialization_lock' = 0
               /\ UNCHANGED <<initialized, started>>
          ELSE IF step = "background_tasks"
          THEN /\ ok
               /\ icall' = [icall EXCEPT ![k].at = "returned", ![k].ran = Append(@, step)]
               /\ started' = started + 1
               /\ initialized' = TRUE
               /\ initialization_lock' = 0
          ELSE /\ icall' = [icall EXCEPT ![k].ran = Append(@, step),
                                         ![k].warm = IF step = "warm_up" THEN ok ELSE @]
               /\ UNCHANGED <<initialized, started, initialization_lock>>
    /\ UNCHANGED <<rag_connections, rpc>>
    /\ UNCHANGED <<baseVars, retrVars, cacheVars, httpVars, maskVars, intentVars>>

(* --------------------------- intent detection ------------------------- *)
\* A text is the set of the words and phrases in it, each written in lower or
\* in upper case.  What a word contains of the functions' terms is a matter of
\* its letters: "agendamentos" contains "agendamento" and "agenda".
TextWords == {"buscar cliente", "agendamentos", "financeiro", "cancelar", "resumo", "ola"}

Texts31 == { t \in SUBSET [word : TextWords, upper : BOOLEAN] :
               \A a, b \in t : a.word = b.word => a = b }

TermsIn(word) ==
    CASE word = "buscar cliente" -> {"buscar", "cliente", "buscar cliente"}
      [] word = "agendamentos" -> {"agendamento", "agendamentos", "agenda"}
      [] word = "financeiro" -> {"financeiro"}
      [] word = "cancelar" -> {"cancelar"}
      [] word = "resumo" -> {"resumo"}
      [] OTHER -> {}

\* str.lower()
lower(text) == { [word |-> t.word, upper |-> FALSE] : t \in text }

\* any(word in text for word in terms): the terms are written in lower case and
\* match what is written in lower case
AnyIn(terms, text) == \E t \in text : ~t.upper /\ TermsIn(t.word) \cap terms # {}

\* The terms of each kind of intent in AgentService._detect_intent
detect_terms(kind) ==
    CASE kind = "patient" -> {"buscar", "procurar", "achar", "paciente", "cliente"}
      [] kind = "appointment" -> {"consulta", "agendamento", "marcação", "compromisso"}
      [] kind = "financial" -> {"financeiro", "pagamento", "fatura", "valor", "dinheiro"}
      [] kind = "schedule" -> {"agenda", "marcar", "cancelar", "remarcar"}
      [] kind = "report" -> {"relatório", "relatorio", "resumo"}
      [] OTHER -> {}

\* AgentService._detect_intent
detect_intent(text) ==
    LET text_lower == lower(text) IN
    IF AnyIn(detect_terms("patient"), text_lower) THEN "CLIENT_SEARCH"
    ELSE IF AnyIn(detect_terms("appointment"), text_lower) THEN "APPOINTMENT_QUERY"
    ELSE IF AnyIn(detect_terms("financial"), text_lower) THEN "FINANCIAL_QUERY"
    ELSE IF AnyIn(detect_terms("schedule"), text_lower) THEN "SCHEDULE_MANAGEMENT"
    ELSE IF AnyIn(detect_terms("report"), text_lower) THEN "REPORT_GENERATION"
    ELSE "UNKNOWN"

\* The terms of each kind of intent in NeonProDataAgent._parse_healthcare_intent
parse_terms(kind) ==
    CASE kind = "appointment" -> {"próximos agendamentos", "agendamentos",
                                  "consultas marcadas", "agenda"}
      [] kind = "patient" -> {"buscar cliente", "procurar paciente", "encontrar"}
      [] kind = "financial" -> {"faturamento", "financeiro", "receita", "pagamentos"}
      [] OTHER -> {}

\* NeonProDataAgent._parse_healthcare_intent: the intent it returns.  The name
\* patterns need a name after the phrase; without one the client search is
\* 'search_clients'.
parse_healthcare_intent(query) ==
    LET query_lower == lower(query) IN
    IF AnyIn(parse_terms("appointment"), query_lower) THEN "upcoming_appointments"
    ELSE IF AnyIn(parse_terms("patient"), query_lower) THEN "search_clients"
    ELSE IF AnyIn(parse_terms("financial"), query_lower) THEN "financial_summary"
    ELSE "general_help"

\* process_query classifies the user's text
DetectIntent(text) ==
    /\ classified = NothingClassified
    /\ classified' = [by |-> "_detect_intent", text |-> text, intent |-> detect_intent(text)]
    /\ UNCHANGED <<baseVars, retrVars, cacheVars, httpVars, maskVars, ragVars>>

\* process_healthcare_query classifies the user's text
ParseHealthcareIntent(text) ==
    /\ classified = NothingClassified
    /\ classified' = [by |-> "_parse_healthcare_intent", text |-> text,
                      intent |-> parse_healthcare_intent(text)]
    /\ UNCHANGED <<baseVars, retrVars, cacheVars, httpVars, maskVars, ragVars>>

\* The caller goes on with the intent
IntentTaken ==
    /\ classified # NothingClassified
    /\ classified' = NothingClassified
    /\ UNCHANGED <<baseVars, retrVars, cacheVars, httpVars, maskVars, ragVars>>

(* ----------------------- HealthcareDataService masking ----------------- *)
\* Strings are sequences of characters.  One phone number of every length up
\* to MaxPhoneLen; e-mail addresses with local parts of every length up to
\* MaxLocalLen, and the same without an "@".
PhoneDigits == <<"1", "2", "3", "4", "5", "6", "7", "8", "9", "0", "1", "2">>
LocalChars == <<"a", "b", "c", "d", "e">>
EmailDomain == <<"x", ".", "y">>

Phones == { SubSeq(PhoneDigits, 1, n) : n \in 0..MaxPhoneLen }
Emails == { SubSeq(LocalChars, 1, n) \o <<"@">> \o EmailDomain : n \in 0..MaxLocalLen }
            \cup { SubSeq(LocalChars, 1, n) : n \in 0..MaxLocalLen }

Roles == {"admin", "doctor", "nurse", "receptionist"}
FullAccessRoles == {"admin", "doctor"}
MinMaskedPhoneLen == 8
Stars == <<"*", "*", "*">>

\* '@' in email
HasAt(email) == \E i \in 1..Len(email) : email[i] = "@"

\* email.split('@', 1): the position of the first "@"
FirstAt(email) == CHOOSE i \in 1..Len(email) :
                      email[i] = "@" /\ \A j \in 1..(i - 1) : email[j] # "@"

\* s[:2]
FirstTwo(s) == SubSeq(s, 1, IF Len(s) < 2 THEN Len(s) ELSE 2)

\* HealthcareDataService._mask_phone
mask_phone(phone) ==
    IF phone = << >> \/ Len(phone) < MinMaskedPhoneLen THEN phone
    ELSE FirstTwo(phone) \o Stars \o SubSeq(phone, Len(phone) - 1, Len(phone))

\* HealthcareDataService._mask_phone_by_role
mask_phone_by_role(phone, role) ==
    IF role \in FullAccessRoles THEN phone ELSE mask_phone(phone)

\* HealthcareDataService._mask_email_by_role
mask_email_by_role(email, role) ==
    IF role \in FullAccessRoles THEN email
    ELSE IF HasAt(email)
    THEN FirstTwo(SubSeq(email, 1, FirstAt(email) - 1)) \o Stars
            \o SubSeq(email, FirstAt(email), Len(email))
    ELSE email

\* query_clients_by_name formats a client row for a user of the role
ShowClient(role, phone, email) ==
    /\ shown' = [op |-> "query_clients_by_name", role |-> role,
                 phone |-> phone, email |-> email,
                 out_phone |-> mask_phone_by_role(phone, role),
                 out_email |-> mask_email_by_role(email, role)]
    /\ UNCHANGED <<baseVars, retrVars, cacheVars, httpVars, intentVars, ragVars>>

\* query_upcoming_appointments formats an appointment row for a user of the
\* role: clientPhone is _mask_phone of the client's phone
ShowAppointment(role, phone) ==
    /\ shown' = [op |-> "query_upcoming_appointments", role |-> role,
                 phone |-> phone, email |-> << >>,
                 out_phone |-> mask_phone(phone), out_email |-> << >>]
    /\ UNCHANGED <<baseVars, retrVars, cacheVars, httpVars, intentVars, ragVars>>

(* ------------------------- POST /agui/broadcast ----------------------- *)
\* The admin_key a request carries, and the environment's ADMIN_API_KEY
RequestKeys == {NoKey, "wrong", "secret"}
ConfiguredKeys == {NoKey, "secret"}

\* NeonProDataAgent.validate_admin_access
validate_admin_access(admin_key, configured) == admin_key = configured

\* broadcast_message: 403 without admin access, else the event is built and
\* broadcast_to_all(event) is called
PostBroadcast(admin_key, configured) ==
    IF ~validate_admin_access(admin_key, configured)
    THEN /\ posted' = [admin_key |-> admin_key, configured |-> configured,
                       status |-> "403"]
         /\ UNCHANGED <<protoVars, fanVars>>
    ELSE /\ posted' = [admin_key |-> admin_key, configured |-> configured,
                       status |-> "accepted"]
         /\ FanoutStart("all", "")

(* ------------------------ the event loop's thread --------------------- *)
\* The handler call _handle_event makes next on connection c is handle_agui_message
\* with a query that goes to the datastore
AtDatastoreCall(c) ==
    /\ pc[c] = "handling"
    /\ todo[c] # << >>
    /\ Head(todo[c]).h = "handle_agui_message"
    /\ NeedsDatastore(Head(todo[c]).ev.content)

\* HealthcareDataService.query_*: the Supabase client's execute() is an ordinary
\* blocking call, made without await: from here until it returns the thread of the
\* event loop is inside it and no other task runs.
DatastoreCall(c) ==
    /\ loop = 0
    /\ AtDatastoreCall(c)
    /\ loop' = c
    /\ UNCHANGED <<protoVars, wsmVars, fanVars, store, agentVars, wireVars, wsmOpVars, svcVars>>

\* Nothing holds the thread: the event loop can run a task that is ready
LoopFree == loop = 0

\* execute() returns or raises, and the handler goes on to send its reply
DatastoreReturn(c) ==
    /\ loop = c
    /\ RunHandler(c)
    /\ loop' = 0
    /\ UNCHANGED <<wsmVars, fanVars, store, agentVars, wireVars, wsmOpVars, svcVars>>

\* The steps of the tasks as the event loop runs them
LoopConnect(c) == LoopFree /\ HandleWebsocket(c, "u1") /\ UNCHANGED outerVars

LoopReceive(c, f) == LoopFree /\ Receive(c, f) /\ UNCHANGED restVars

LoopRunHandler(c) ==
    LoopFree /\ ~AtDatastoreCall(c) /\ RunHandler(c) /\ UNCHANGED restVars

LoopDisconnect(c) == LoopFree /\ Disconnect(c) /\ UNCHANGED restVars

LoopHeartbeat(c) == LoopFree /\ HeartbeatTick(c) /\ UNCHANGED restVars

\* The datastore becomes unreachable, or reachable again
StoreChanges ==
    /\ store' = IF store = "up" THEN "down" ELSE "up"
    /\ UNCHANGED <<protoVars, wsmVars, fanVars, loop, agentVars, wireVars, wsmOpVars, svcVars>>

(* ----------------------- AGUIProtocolEncryption ----------------------- *)
\* Texts and byte strings are sequences of symbols of SymbolBits bits.
Symbols == 0..(2^SymbolBits - 1)

RECURSIVE TextsOfLength(_)
TextsOfLength(n) ==
    IF n = 0 THEN { << >> }
    ELSE { Append(t, x) : t \in TextsOfLength(n - 1), x \in Symbols }

\* json.dumps(event.data): never the empty text
Texts == UNION { TextsOfLength(n) : n \in 1..MaxText }

\* _generate_key: PBKDF2 of a fixed salt and fixed key material, the same value
\* in every session
generate_key == 3

\* b'initializationve' in encrypt and in decrypt
iv == 1

\* bitwise exclusive or of two symbols, n bits wide
RECURSIVE Xor(_, _, _)
Xor(a, b, n) ==
    IF n = 0 THEN 0
    ELSE (((a % 2) + (b % 2)) % 2) + 2 * Xor(a \div 2, b \div 2, n - 1)

\* The block cipher under key k: a keyed permutation of the symbols
AES(k, x) == ((5 * x) + k) % (2^SymbolBits)

\* modes.CFB, encryptor: each symbol is xored with the cipher of the previous
\* ciphertext symbol, the first with the cipher of the iv
RECURSIVE CFBEncrypt(_, _, _)
CFBEncrypt(k, prev, text) ==
    IF text = << >> THEN << >>
    ELSE LET x == Xor(Head(text), AES(k, prev), SymbolBits)
         IN  << x >> \o CFBEncrypt(k, x, Tail(text))

\* modes.CFB, decryptor
RECURSIVE CFBDecrypt(_, _, _)
CFBDecrypt(k, prev, bytes) ==
    IF bytes = << >> THEN << >>
    ELSE << Xor(Head(bytes), AES(k, prev), SymbolBits) >>
            \o CFBDecrypt(k, Head(bytes), Tail(bytes))

\* base64.b64encode: every symbol is written as two characters
RECURSIVE b64encode(_)
b64encode(bytes) ==
    IF bytes = << >> THEN << >>
    ELSE << Head(bytes) \div 2, Head(bytes) % 2 >> \o b64encode(Tail(bytes))

\* base64.b64decode of an encoded text
RECURSIVE b64decode(_)
b64decode(text) ==
    IF Len(text) < 2 THEN << >>
    ELSE << (2 * text[1]) + text[2] >> \o b64decode(Tail(Tail(text)))

\* AGUIProtocolEncryption.encrypt
encrypt(key, data) == b64encode(CFBEncrypt(key, iv, data))

\* (mutant) decrypt starts from another iv than encrypt
decrypt_OtherIv(key, encrypted_data) ==
    CFBDecrypt(key, (iv + 1) % (2^SymbolBits), b64decode(encrypted_data))

\* AGUIProtocolEncryption.decrypt
decrypt(key, encrypted_data) == CFBDecrypt(key, iv, b64decode(encrypted_data))

\* AGUISession.__init__: self.encryption = AGUIProtocolEncryption()
SessionKey(c) == generate_key

\* (mutant) every event type is encrypted
SensitiveTypes_All == EventTypes

\* send_event, line 151: the event types whose data is encrypted
SensitiveTypes == {"message", "response"}

\* send_event: the frame written for an event of the given type and serialized
\* data on the session of connection c.  A frame without the key 'encrypted' is
\* written as encrypted = FALSE.
WireFrame(c, type, data) ==
    IF type \in SensitiveTypes
    THEN [type |-> type, data |-> encrypt(SessionKey(c), data), encrypted |-> TRUE,
          given |-> data]
    ELSE [type |-> type, data |-> data, encrypted |-> FALSE, given |-> data]

\* send_event serializes an event and writes the frame
Serialize(c, type, data) ==
    /\ wire = NoWire
    /\ wire' = WireFrame(c, type, data)
    /\ decoded' = << >>
    /\ UNCHANGED <<protoVars, wsmVars, fanVars, envVars, agentVars, wsmOpVars, svcVars>>

\* The peer is done with the frame
Consumed ==
    /\ wire # NoWire
    /\ wire' = NoWire
    /\ decoded' = << >>
    /\ UNCHANGED <<protoVars, wsmVars, fanVars, envVars, agentVars, wsmOpVars, svcVars>>

\* The peer decrypts the data of an encrypted frame with the session's key
PeerDecrypt(c) ==
    /\ wire.encrypted
    /\ decoded = << >>
    /\ decoded' = decrypt(SessionKey(c), wire.data)
    /\ UNCHANGED <<wire, protoVars, wsmVars, fanVars, envVars, agentVars, wsmOpVars, svcVars>>

(* ---------------------------- AgUiRagAgent ---------------------------- *)
\* What the agent's steps leave alone
nonAgentVars == <<protoVars, wsmVars, fanVars, loop, wireVars, wsmOpVars, svcVars>>

\* d[k] = v on a dict
Put(d, k, v) == [x \in (DOMAIN d) \cup {k} |-> IF x = k THEN v ELSE d[x]]

\* del d[k] for every k in S
Drop(d, S) == [x \in (DOMAIN d) \ S |-> d[x]]

\* (mutant) the slice keeps the first turns instead of the last
KeepLast_KeepsFirst(h) == IF Len(h) > HistoryCap THEN SubSeq(h, 1, HistoryCap) ELSE h

\* _update_session_context, lines 527-529: conversation_history[-10:]
KeepLast(h) ==
    IF Len(h) > HistoryCap THEN SubSeq(h, Len(h) - HistoryCap + 1, Len(h)) ELSE h

\* The turns appended so far to the histories of the sessions in S
RECURSIVE TurnsAppended(_)
TurnsAppended(S) ==
    IF S = {} THEN 0
    ELSE LET sid == CHOOSE x \in S : TRUE
         IN  appended[sid] + TurnsAppended(S \ {sid})

\* The history _update_session_context leaves in the cached context of sid:
\* the new turn appended, then the slice.  A turn is written as its ordinal
\* among the turns appended for the session.
WithTurn(sid) == KeepLast(Append(agent_sessions[sid], appended[sid] + 1))

\* _update_session_context(sid, query, response): nothing when the session is
\* not in agent_sessions; otherwise the cached context is changed in place and
\* then written to the stored row, a failure of that write being logged
UpdateSessionContext(sid) ==
    IF sid \in DOMAIN agent_sessions
    THEN /\ TurnsAppended(SessionIds) < MaxTurns
         /\ agent_sessions' = [agent_sessions EXCEPT ![sid] = WithTurn(sid)]
         /\ appended' = [appended EXCEPT ![sid] = @ + 1]
         /\ rag_agent_sessions' =
              IF store = "up" /\ sid \in DOMAIN rag_agent_sessions
              THEN [rag_agent_sessions EXCEPT ![sid] = WithTurn(sid)]
              ELSE rag_agent_sessions
    ELSE UNCHANGED <<agent_sessions, appended, rag_agent_sessions>>

\* process_query up to the generation of the response: _get_or_create_session.
\* A stored row is returned as it is; otherwise a row is created and the
\* session is put in agent_sessions; with the datastore down get_session
\* returns None, create_session raises and process_query returns an error
GetOrCreateSession(q, sid) ==
    /\ qcall[q].at = "idle"
    /\ IF store = "down"
       THEN /\ qcall' = [qcall EXCEPT ![q] = [IdleCall EXCEPT !.result = "error"]]
            /\ UNCHANGED <<agent_sessions, rag_agent_sessions>>
       ELSE /\ qcall' = [qcall EXCEPT ![q] =
                            [at |-> "generating", session_id |-> sid, result |-> "none"]]
            /\ IF sid \in DOMAIN rag_agent_sessions
               THEN UNCHANGED <<agent_sessions, rag_agent_sessions>>
               ELSE /\ rag_agent_sessions' = Put(rag_agent_sessions, sid, << >>)
                    /\ agent_sessions' = Put(agent_sessions, sid, << >>)
    /\ UNCHANGED <<appended, store, nonAgentVars>>

\* process_query from the generated response to its return
FinishQuery(q) ==
    /\ qcall[q].at = "generating"
    /\ UpdateSessionContext(qcall[q].session_id)
    /\ qcall' = [qcall EXCEPT ![q] = [IdleCall EXCEPT !.result = "ok"]]
    /\ UNCHANGED <<store, nonAgentVars>>

\* process_websocket_message on a session_update message
SessionUpdate(sid) ==
    /\ UpdateSessionContext(sid)
    /\ UNCHANGED <<qcall, store, nonAgentVars>>

\* cleanup_inactive_sessions: the sessions created more than an hour ago leave
\* agent_sessions
CleanupInactiveSessions ==
    /\ \E S \in (SUBSET DOMAIN agent_sessions) \ {{}} :
          agent_sessions' = Drop(agent_sessions, S)
    /\ UNCHANGED <<rag_agent_sessions, qcall, appended, store, nonAgentVars>>

\* cleanup_expired_sessions: the rows past expires_at are deleted
ExpiredSessionsCleanup ==
    /\ store = "up"
    /\ \E S \in (SUBSET DOMAIN rag_agent_sessions) \ {{}} :
          rag_agent_sessions' = Drop(rag_agent_sessions, S)
    /\ UNCHANGED <<agent_sessions, qcall, appended, store, nonAgentVars>>

\* shutdown, and the process starting again: agent_sessions.clear()
Shutdown ==
    /\ DOMAIN agent_sessions # {}
    /\ agent_sessions' = << >>
    /\ qcall' = [q \in QueryCalls |-> IdleCall]
    /\ UNCHANGED <<rag_agent_sessions, appended, store, nonAgentVars>>

(* ------------------------- WebSocketManager --------------------------- *)
\* The ids a caller passes to connect; "" is client_id=None
ClientIds == {"", "a", "b"}

\* (mutant) the limit is compared with > instead of >=
AtCapacity_OffByOne == Len(active_connections) > max_connections

\* connect, line 27: the capacity test
AtCapacity == Len(active_connections) >= max_connections

\* connect, line 35: the id generated for a caller that gave none; the timestamp
\* in it differs from call to call, which the websocket's number stands for
GeneratedId(w) ==
    CASE w = 1 -> "client_1" [] w = 2 -> "client_2" [] w = 3 -> "client_3"
      [] OTHER -> "client_n"

HasKey(id) == \E i \in 1..Len(active_connections) : active_connections[i].id = id

\* active_connections[id] = w: a new key goes to the end, a known key keeps its place
SetItem(id, w) ==
    IF HasKey(id)
    THEN [i \in 1..Len(active_connections) |->
            IF active_connections[i].id = id THEN [id |-> id, ws |-> w]
            ELSE active_connections[i]]
    ELSE Append(active_connections, [id |-> id, ws |-> w])

\* disconnect: the first entry of conns that holds websocket w, 0 when none does
FirstEntryOf(conns, w) ==
    IF \E i \in 1..Len(conns) : conns[i].ws = w
    THEN CHOOSE i \in 1..Len(conns) :
            conns[i].ws = w /\ \A j \in 1..(i - 1) : conns[j].ws # w
    ELSE 0

DropAt(seq, i) == [j \in 1..(Len(seq) - 1) |-> IF j < i THEN seq[j] ELSE seq[j + 1]]

\* WebSocketManager.disconnect(w) applied to the registry conns / meta
DisconnectConns(conns, w) ==
    IF FirstEntryOf(conns, w) = 0 THEN conns ELSE DropAt(conns, FirstEntryOf(conns, w))

\* (mutant) disconnect leaves connection_metadata alone
DisconnectMeta_Kept(conns, meta, w) == meta

\* disconnect, lines 63-64: the metadata of the removed client id
DisconnectMeta(conns, meta, w) ==
    IF FirstEntryOf(conns, w) = 0 THEN meta ELSE meta \ {conns[FirstEntryOf(conns, w)].id}

\* connect is called for websocket w: refused at the limit, else suspended in accept()
WConnect(w, id) ==
    /\ cpc[w].at = "idle"
    /\ IF AtCapacity
       THEN /\ wsock' = [wsock EXCEPT ![w].closes = @ + 1,
                                      ![w].close_code = 1008,
                                      ![w].close_reason = "Maximum connections reached"]
            /\ cpc' = [cpc EXCEPT ![w] = [at |-> "refused", client_id |-> id]]
       ELSE /\ cpc' = [cpc EXCEPT ![w] = [at |-> "accepting", client_id |-> id]]
            /\ UNCHANGED wsock
    /\ UNCHANGED <<active_connections, connection_metadata>>

\* accept() returns: the websocket is registered and the welcome message is sent
\* with send_personal_message, whose failed send runs disconnect(websocket).
\* accept() raises when the peer is already gone.
WAccepted(w) ==
    /\ cpc[w].at = "accepting"
    /\ IF ~wsock[w].alive
       THEN /\ cpc' = [cpc EXCEPT ![w].at = "failed"]
            /\ UNCHANGED <<wsock, active_connections, connection_metadata>>
       ELSE LET id == IF cpc[w].client_id = "" THEN GeneratedId(w) ELSE cpc[w].client_id
                registered == SetItem(id, w)
            IN  /\ cpc' = [cpc EXCEPT ![w].at = "connected"]
                /\ \E delivered \in BOOLEAN :
                     IF delivered
                     THEN /\ active_connections' = registered
                          /\ connection_metadata' = connection_metadata \cup {id}
                          /\ wsock' = [wsock EXCEPT
                                         ![w].accepted = TRUE,
                                         ![w].sent = Append(@, "connection_established")]
                     ELSE /\ active_connections' = DisconnectConns(registered, w)
                          /\ connection_metadata' =
                                DisconnectMeta(registered, connection_metadata \cup {id}, w)
                          /\ wsock' = [wsock EXCEPT ![w].accepted = TRUE,
                                                    ![w].alive = FALSE]

\* The peer of a websocket goes away
WPeerGone(w) ==
    /\ wsock[w].alive
    /\ cpc[w].at \in {"accepting", "connected"}
    /\ wsock' = [wsock EXCEPT ![w].alive = FALSE]
    /\ UNCHANGED <<active_connections, connection_metadata, cpc>>

\* The endpoint's receive raises and it calls disconnect(websocket)
WDisconnect(w) ==
    /\ cpc[w].at = "connected"
    /\ ~wsock[w].alive
    /\ active_connections' = DisconnectConns(active_connections, w)
    /\ connection_metadata' = DisconnectMeta(active_connections, connection_metadata, w)
    /\ cpc' = [cpc EXCEPT ![w].at = "gone"]
    /\ UNCHANGED wsock

\* Websocket w is a value of active_connections
Registered(w) == \E i \in 1..Len(active_connections) : active_connections[i].ws = w

\* websocket.send_json(message) on w: the message is written, or the call raises
\* on a websocket whose peer is gone
wsent(w, message) == [wsock EXCEPT ![w].sent = Append(@, message)]

\* send_personal_message(message, w): a send that raises is logged and followed
\* by disconnect(w)
SendPersonalMessage(w) ==
    /\ cpc[w].at = "connected"
    /\ Len(wsock[w].sent) < MaxSent
    /\ IF wsock[w].alive
       THEN /\ wsock' = wsent(w, "personal")
            /\ UNCHANGED <<active_connections, connection_metadata>>
       ELSE /\ active_connections' = DisconnectConns(active_connections, w)
            /\ connection_metadata' =
                  DisconnectMeta(active_connections, connection_metadata, w)
            /\ UNCHANGED wsock
    /\ UNCHANGED <<cpc, wsmOpVars, otherVars>>

\* The registry after disconnect(ws) for every ws of the list, in order
RECURSIVE DisconnectAll(_, _, _)
DisconnectAll(conns, meta, list) ==
    IF list = << >> THEN [conns |-> conns, meta |-> meta]
    ELSE DisconnectAll(DisconnectConns(conns, Head(list)),
                       DisconnectMeta(conns, meta, Head(list)), Tail(list))

\* broadcast, lines 90-91: the clean-up after the loop
BroadcastCleanup(list) == DisconnectAll(active_connections, connection_metadata, list)

\* The for-loop of broadcast over self.active_connections.items() from one
\* resumption to its next suspension in send_json.  The dict iterator raises
\* RuntimeError when the dict has another size than at its creation, which ends
\* the call before its clean-up loop; otherwise it yields the entries it has not
\* passed yet.  A send that raises is logged and its websocket is noted for the
\* clean-up.
BroadcastSend(b) ==
    LET rest == SelectSeq(active_connections, LAMBDA e : e.id \notin b.visited)
    IN  IF Len(active_connections) # b.used
        THEN /\ bcast' = [b EXCEPT !.pc = "raised"]
             /\ ping_task' = IF b.by = "ping" THEN "failed" ELSE ping_task
             /\ UNCHANGED <<active_connections, connection_metadata, wsock>>
        ELSE IF rest = << >>
        THEN /\ bcast' = [b EXCEPT !.pc = "returned"]
             /\ active_connections' = BroadcastCleanup(b.disconnected).conns
             /\ connection_metadata' = BroadcastCleanup(b.disconnected).meta
             /\ UNCHANGED <<wsock, ping_task>>
        ELSE LET w == Head(rest).ws IN
             /\ bcast' = [b EXCEPT
                            !.pc = "sending",
                            !.visited = @ \cup {Head(rest).id},
                            !.disconnected = IF wsock[w].alive THEN @ ELSE Append(@, w),
                            !.raised = IF wsock[w].alive THEN @ ELSE @ \cup {w},
                            !.delivered = IF wsock[w].alive THEN @ \cup {w} ELSE @]
             /\ wsock' = IF wsock[w].alive THEN wsent(w, "broadcast") ELSE wsock
             /\ UNCHANGED <<active_connections, connection_metadata, ping_task>>

\* broadcast(message) is called, by a caller or by the ping task after its sleep
\* (which skips the call while nobody is connected)
BroadcastStart(by) ==
    /\ bcast.pc \in {"idle", "returned", "raised", "cancelled"}
    /\ bcast.n < MaxBroadcasts
    /\ by = "ping" => ping_task = "running" /\ active_connections # << >>
    /\ IF active_connections = << >>
       THEN /\ bcast' = [NoBroadcast EXCEPT !.pc = "returned", !.by = by, !.n = bcast.n + 1]
            /\ UNCHANGED <<active_connections, connection_metadata, wsock, ping_task>>
       ELSE BroadcastSend([NoBroadcast EXCEPT !.by = by, !.n = bcast.n + 1,
                                              !.used = Len(active_connections)])
    /\ UNCHANGED <<cpc, closer, otherVars>>

\* send_json returns or raises and the loop goes on
BroadcastResume ==
    /\ bcast.pc = "sending"
    /\ BroadcastSend(bcast)
    /\ UNCHANGED <<cpc, closer, otherVars>>

\* start_ping_task: the task that runs _ping_clients is created.  The server
\* starts it in its startup phase and calls close_all_connections in its
\* shutdown phase.
StartPingTask ==
    /\ ping_task = "none"
    /\ closer.pc = "idle"
    /\ ping_task' = "running"
    /\ UNCHANGED <<wsmVars, bcast, closer, otherVars>>

\* The websockets of list(self.active_connections.values())
Values(conns) == [i \in 1..Len(conns) |-> conns[i].ws]

\* websocket.close() is called on w; what it raises is logged
wclosed(w) == [wsock EXCEPT ![w].closes = @ + 1]

\* (mutant) the two dicts are not cleared
ClearedRegistry_Kept == active_connections

\* close_all_connections, lines 137-138: clear()
ClearedRegistry == << >>

\* The loop of close_all_connections over its copy of the websockets, from one
\* resumption to the next close(); after the last one the two dicts are cleared
CloseStep(list, copy) ==
    IF list = << >>
    THEN /\ closer' = [closer EXCEPT !.pc = "returned", !.todo = << >>,
                                     !.registered = copy]
         /\ active_connections' = ClearedRegistry
         /\ connection_metadata' = {}
         /\ UNCHANGED wsock
    ELSE /\ closer' = [closer EXCEPT !.pc = "closing", !.todo = Tail(list),
                                     !.registered = copy]
         /\ wsock' = wclosed(Head(list))
         /\ UNCHANGED <<active_connections, connection_metadata>>

\* The loop starts on list(self.active_connections.values())
CloseAllLoop ==
    CloseStep(Values(active_connections),
              { active_connections[i].ws : i \in 1..Len(active_connections) })

\* close_all_connections is called.  A running ping task is cancelled and
\* awaited; awaiting a ping task that has ended with an exception raises that
\* exception out of close_all_connections; without a ping task the loop starts
\* at once.
CloseAllStart ==
    /\ closer.pc = "idle"
    /\ CASE ping_task = "failed" ->
              /\ closer' = [closer EXCEPT !.pc = "raised"]
              /\ UNCHANGED <<wsmVars, bcast, ping_task>>
         [] ping_task = "running" ->
              /\ closer' = [closer EXCEPT !.pc = "awaiting_ping"]
              /\ ping_task' = "cancelled"
              /\ bcast' = IF bcast.by = "ping" /\ bcast.pc = "sending"
                          THEN [bcast EXCEPT !.pc = "cancelled"] ELSE bcast
              /\ UNCHANGED wsmVars
         [] OTHER ->
              /\ CloseAllLoop
              /\ UNCHANGED <<cpc, bcast, ping_task>>
    /\ UNCHANGED otherVars

\* The cancelled ping task has ended: the copy is taken and the loop starts
CloseAllAfterPing ==
    /\ closer.pc = "awaiting_ping"
    /\ CloseAllLoop
    /\ UNCHANGED <<cpc, bcast, ping_task, otherVars>>

\* close() has returned or raised and the loop goes on
CloseAllResume ==
    /\ closer.pc = "closing"
    /\ CloseStep(closer.todo, closer.registered)
    /\ UNCHANGED <<cpc, bcast, ping_task, otherVars>>

(* ---------------------------- the vector index ----------------------- *)
\* One query is asked.  A row of the embedding table is taken with what the
\* query makes of it: its cosine similarity to the query's embedding and the
\* share of the query's terms found in its content, both in tenths.  Scores
\* that a result dict does not carry are 0, as result.get(key, 0) reads them.
Tenants == {"t1", "t2"}
NoTenant == "None"
Similarities == {6, 10}
KeywordMatches == {0, 10}

score_threshold == 7
semantic_weight == 7
keyword_weight == 3
KeywordScanLimit == 1000

Row(id, tenant, similarity, match) ==
    [id |-> id, tenant_id |-> tenant, similarity |-> similarity, match |-> match,
     similarity_score |-> 0, ranked_score |-> 0,
     semantic_score |-> 0, keyword_score |-> 0, combined_score |-> 0]

\* seq[:n]
Take(seq, n) == SubSeq(seq, 1, IF n < Len(seq) THEN n ELSE Len(seq))

\* list.sort(key=..., reverse=True) and sorted(..., reverse=True): descending by
\* the field, rows of equal key in their former order
RECURSIVE SortDesc(_, _)
SortDesc(seq, field) ==
    IF seq = << >> THEN << >>
    ELSE LET x == seq[Len(seq)]
             before == SortDesc(SubSeq(seq, 1, Len(seq) - 1), field)
             ahead == SelectSeq(before, LAMBDA r : r[field] >= x[field])
             behind == SelectSeq(before, LAMBDA r : r[field] < x[field])
         IN  ahead \o <<x>> \o behind

\* "if tenant_id:" keeps the rows of that tenant; None and "" keep every row
ForTenant(rows, tenant_id) ==
    IF tenant_id \in {NoTenant, ""} THEN rows
    ELSE SelectSeq(rows, LAMBDA r : r.tenant_id = tenant_id)

\* The rows nearest to the query embedding first; every row is as near as any
\* other to the all-zero embedding of the keyword scan
Nearest(rows, query_embedding) ==
    IF query_embedding = "query" THEN SortDesc(rows, "similarity") ELSE rows

\* The rpc match_documents: the match_count nearest rows
match_documents(query_embedding, match_count) ==
    Take(Nearest(embeddings, query_embedding), match_count)

\* SupabaseManager._fallback_vector_search: the tenant is part of the WHERE clause
fallback_vector_search(query_embedding, limit, tenant_id) ==
    Take(Nearest(ForTenant(embeddings, tenant_id), query_embedding), limit)

\* SupabaseManager.search_similar: the rpc's rows filtered by tenant afterwards,
\* or the fallback when the rpc raised
search_similar(query_embedding, limit, tenant_id, rpc_ok) ==
    IF rpc_ok
    THEN ForTenant(match_documents(query_embedding, limit), tenant_id)
    ELSE fallback_vector_search(query_embedding, limit, tenant_id)

\* VectorStoreManager.similarity_search: rows under the threshold are dropped
similarity_search(limit, tenant_id, rpc_ok) ==
    LET results == search_similar("query", limit, tenant_id, rpc_ok)
        scored == [i \in 1..Len(results) |->
                     [results[i] EXCEPT !.similarity_score = results[i].similarity]]
    IN  SelectSeq(scored, LAMBDA r : r.similarity >= score_threshold)

\* VectorStoreManager._keyword_search
keyword_search(limit, tenant_id, rpc_ok) ==
    LET all_results == search_similar("zeros", KeywordScanLimit, tenant_id, rpc_ok)
        matching == SelectSeq(all_results, LAMBDA r : r.match > 0)
        scored == [i \in 1..Len(matching) |->
                     [matching[i] EXCEPT !.keyword_score = matching[i].match]]
    IN  Take(SortDesc(scored, "keyword_score"), limit)

\* The ids of the rows of a list
Ids(rows) == { rows[i].id : i \in 1..Len(rows) }

\* VectorStoreManager._combine_results: one entry per document, those of the
\* semantic results first and in their order, then the documents only the
\* keyword scan found; sorted by combined_score and cut to the limit
combine_results(semantic_results, keyword_results, limit) ==
    LET keyword_of(id) ==
            LET hits == SelectSeq(keyword_results, LAMBDA r : r.id = id)
            IN  IF hits = << >> THEN 0 ELSE hits[Len(hits)].keyword_score
        both == [i \in 1..Len(semantic_results) |->
                   LET r == semantic_results[i] IN
                   [r EXCEPT !.semantic_score = r.similarity_score,
                             !.keyword_score = keyword_of(r.id),
                             !.combined_score = (r.similarity_score * semantic_weight)
                                                + (keyword_of(r.id) * keyword_weight)]]
        only == SelectSeq(keyword_results, LAMBDA r : r.id \notin Ids(semantic_results))
        rest == [i \in 1..Len(only) |->
                   [only[i] EXCEPT !.semantic_score = 0,
                                   !.combined_score = only[i].keyword_score * keyword_weight]]
    IN  Take(SortDesc(both \o rest, "combined_score"), limit)

\* VectorStoreManager.hybrid_search: both searches ask for twice the limit
hybrid_search(limit, tenant_id, semantic_ok, keyword_ok) ==
    combine_results(similarity_search(limit * 2, tenant_id, semantic_ok),
                    keyword_search(limit * 2, tenant_id, keyword_ok), limit)

\* HealthcareRetriever._rank_medical_results for a query that names none of the
\* boosted medical keywords, on rows whose metadata carries no created_at: the
\* ranked score is the similarity score
rank_medical_results(results) ==
    SortDesc([i \in 1..Len(results) |->
                [results[i] EXCEPT !.ranked_score = results[i].similarity_score]],
             "ranked_score")

\* HealthcareRetriever.search_medical_knowledge: similarity_search is called
\* without a tenant_id
search_medical_knowledge(limit, rpc_ok) ==
    rank_medical_results(similarity_search(limit, NoTenant, rpc_ok))

\* SupabaseManager.store_embedding: a row is inserted
StoreEmbedding(tenant, similarity, match) ==
    /\ Len(embeddings) < NumDocs
    /\ embeddings' = Append(embeddings, Row(Len(embeddings) + 1, tenant, similarity, match))
    /\ UNCHANGED <<retrieved, baseVars, cacheVars, httpVars, maskVars, intentVars, ragVars>>

\* What a retrieval call returned, with the tenant of the user who asked
Returned(call, tenant, tenant_id, limit, results) ==
    [call |-> call, tenant |-> tenant, tenant_id |-> tenant_id,
     limit |-> limit, results |-> results]

\* The caller has taken what the last retrieval returned; the next one is made
\* after that
ResultsTaken ==
    /\ retrieved # NoResults
    /\ retrieved' = NoResults
    /\ UNCHANGED <<embeddings, baseVars, cacheVars, httpVars, maskVars, intentVars, ragVars>>

\* similarity_search is called for a tenant
SimilaritySearch(tenant, limit, rpc_ok) ==
    /\ retrieved = NoResults
    /\ retrieved' = Returned("similarity_search", tenant, tenant, limit,
                             similarity_search(limit, tenant, rpc_ok))
    /\ UNCHANGED <<embeddings, baseVars, cacheVars, httpVars, maskVars, intentVars, ragVars>>

\* hybrid_search is called for a tenant
HybridSearch(tenant, limit, semantic_ok, keyword_ok) ==
    /\ retrieved = NoResults
    /\ retrieved' = Returned("hybrid_search", tenant, tenant, limit,
                             hybrid_search(limit, tenant, semantic_ok, keyword_ok))
    /\ UNCHANGED <<embeddings, baseVars, cacheVars, httpVars, maskVars, intentVars, ragVars>>

\* get_relevant_context calls search_medical_knowledge for a user of a tenant
SearchMedicalKnowledge(tenant, limit, rpc_ok) ==
    /\ retrieved = NoResults
    /\ retrieved' = Returned("search_medical_knowledge", tenant, NoTenant, limit,
                             search_medical_knowledge(limit, rpc_ok))
    /\ UNCHANGED <<embeddings, baseVars, cacheVars, httpVars, maskVars, intentVars, ragVars>>

(* --------------------------- DatabaseService -------------------------- *)
cache_ttl == 300

\* search_patients, lines 45-47: the key is cached and its entry is younger
\* than the TTL
Fresh(entry) == entry # NoEntry /\ clock - entry.timestamp < cache_ttl

\* The query of lines 52-75: the patients whose name matches, of the context's
\* clinic when it names one, at most limit rows
QueryPatients(name, limit, clinic) ==
    Take(SelectSeq(PatientRows,
                   LAMBDA r : /\ r.full_name = name
                              /\ clinic # NoClinic => r.clinic_id = clinic),
         limit)

\* search_patients(name, limit, context) by a caller whose context names the
\* clinic or none; the query raises when the database is down
SearchPatients(name, limit, clinic, db_ok) ==
    LET key == cache_key(name, limit)
        request == [NothingServed EXCEPT !.name = name, !.limit = limit, !.clinic = clinic]
    IN  /\ served = NothingServed
        /\ IF Fresh(cache[key])
           THEN /\ served' = [request EXCEPT !.rows = cache[key].data,
                                             !.outcome = "cached",
                                             !.stored_for = cache[key].context,
                                             !.age = clock - cache[key].timestamp]
                /\ UNCHANGED cache
           ELSE IF ~db_ok
           THEN /\ served' = [request EXCEPT !.outcome = "raised"]
                /\ UNCHANGED cache
           ELSE LET data == QueryPatients(name, limit, clinic) IN
                /\ served' = [request EXCEPT !.rows = data, !.outcome = "queried"]
                /\ cache' = IF data # << >>
                            THEN [cache EXCEPT ![key] = [data |-> data, timestamp |-> clock,
                                                         context |-> clinic]]
                            ELSE cache
        /\ UNCHANGED <<clock, baseVars, retrVars, httpVars, maskVars, intentVars, ragVars>>

\* The caller has taken the rows; the next search comes after that
PatientsTaken ==
    /\ served # NothingServed
    /\ served' = NothingServed
    /\ UNCHANGED <<cache, clock, baseVars, retrVars, httpVars, maskVars, intentVars, ragVars>>

\* Time passes
ClockTick ==
    /\ clock + ClockStep <= MaxClock
    /\ clock' = clock + ClockStep
    /\ UNCHANGED <<cache, served, baseVars, retrVars, httpVars, maskVars, intentVars, ragVars>>

(* --------------------------- specifications -------------------------- *)
\* One connection, its receive loop and its heartbeat task, under every kind of
\* inbound frame.
Next ==
    \/ ClientDisconnect(1) /\ UNCHANGED restVars
    \/ HandleWebsocket(1, "u1") /\ UNCHANGED outerVars
    \/ \E f \in Frames : Receive(1, f) /\ UNCHANGED restVars
    \/ RunHandler(1) /\ UNCHANGED restVars
    \/ Disconnect(1) /\ UNCHANGED restVars
    \/ HeartbeatTick(1) /\ UNCHANGED restVars

Spec == Init /\ [][Next]_vars

\* Every connection, the clock and the cleanup sweep; the clients send query
\* messages and frames that are not JSON objects.
RegistryFrames == { Frame("message", "q1"), Frame("non_object", "") }

NextRegistry ==
    \/ \E c \in Conns : ClientDisconnect(c) /\ UNCHANGED restVars
    \/ \E c \in Conns : HandleWebsocket(c, "u1") /\ UNCHANGED outerVars
    \/ \E c \in Conns : \E f \in RegistryFrames : Receive(c, f) /\ UNCHANGED restVars
    \/ \E c \in Conns : RunHandler(c) /\ UNCHANGED restVars
    \/ \E c \in Conns : Disconnect(c) /\ UNCHANGED restVars
    \/ \E c \in Conns : HeartbeatTick(c) /\ UNCHANGED restVars
    \/ Tick /\ UNCHANGED restVars
    \/ CleanupScan /\ UNCHANGED restVars
    \/ CleanupResume /\ UNCHANGED restVars

SpecRegistry == Init /\ [][NextRegistry]_vars

\* The event loop runs every task that is ready: a receive loop whose receive_text
\* has raised, or whose handler call can proceed, is eventually resumed.
SpecRegistryFair ==
    /\ SpecRegistry
    /\ \A c \in Conns : /\ WF_vars(Disconnect(c) /\ UNCHANGED restVars)
                        /\ WF_vars(RunHandler(c) /\ UNCHANGED restVars)

\* The heartbeat timers fire as well: asyncio.sleep(30) returns
SpecHeartbeatFair ==
    /\ SpecRegistryFair
    /\ \A c \in Conns : WF_vars(HeartbeatTick(c) /\ UNCHANGED restVars)

\* WebSocketManager: the websockets connect, lose their peers and are disconnected
NextWSM ==
    \/ \E w \in Socks : \E id \in ClientIds : WConnect(w, id) /\ UNCHANGED nonWsmVars
    \/ \E w \in Socks : WAccepted(w) /\ UNCHANGED nonWsmVars
    \/ \E w \in Socks : WPeerGone(w) /\ UNCHANGED nonWsmVars
    \/ \E w \in Socks : WDisconnect(w) /\ UNCHANGED nonWsmVars

SpecWSM == Init /\ [][NextWSM]_vars

\* The manager with its endpoints, the ping task and the shutdown
ManagerIds == {""}

NextManager ==
    \/ \E w \in Socks : \E id \in ManagerIds : WConnect(w, id) /\ UNCHANGED nonWsmVars
    \/ \E w \in Socks : WAccepted(w) /\ UNCHANGED nonWsmVars
    \/ \E w \in Socks : WPeerGone(w) /\ UNCHANGED nonWsmVars
    \/ \E w \in Socks : WDisconnect(w) /\ UNCHANGED nonWsmVars
    \/ \E w \in Socks : SendPersonalMessage(w)
    \/ BroadcastStart("caller")
    \/ BroadcastResume

NextShutdown ==
    \/ \E w \in Socks : \E id \in ManagerIds : WConnect(w, id) /\ UNCHANGED nonWsmVars
    \/ \E w \in Socks : WAccepted(w) /\ UNCHANGED nonWsmVars
    \/ \E w \in Socks : WPeerGone(w) /\ UNCHANGED nonWsmVars
    \/ \E w \in Socks : WDisconnect(w) /\ UNCHANGED nonWsmVars
    \/ StartPingTask
    \/ BroadcastStart("ping")
    \/ BroadcastResume
    \/ CloseAllStart
    \/ CloseAllAfterPing
    \/ CloseAllResume

SpecShutdown == Init /\ [][NextShutdown]_vars

SpecManager == Init /\ [][NextManager]_vars

\* The connections with their users, query messages, and a fan-out
FanoutFrames == { Frame("message", "q1") }

NextFanout ==
    \/ \E c \in Conns : \E u \in Users : HandleWebsocket(c, u) /\ UNCHANGED outerVars
    \/ \E c \in Conns : ClientDisconnect(c) /\ UNCHANGED restVars
    \/ \E c \in Conns : \E f \in FanoutFrames : Receive(c, f) /\ UNCHANGED restVars
    \/ \E c \in Conns : RunHandler(c) /\ UNCHANGED restVars
    \/ \E c \in Conns : Disconnect(c) /\ UNCHANGED restVars
    \/ FanoutStart("all", "") /\ UNCHANGED outerVars
    \/ \E u \in Users : FanoutStart("user", u) /\ UNCHANGED outerVars
    \/ FanoutResume /\ UNCHANGED outerVars

SpecFanout == Init /\ [][NextFanout]_vars

\* The connections as tasks of one event loop, with the datastore calls the query
\* handler makes
LoopFrames == { Frame("message", "q1"), Frame("message", "q2") }

NextLoop ==
    \/ \E c \in Conns : LoopConnect(c)
    \/ \E c \in Conns : ClientDisconnect(c) /\ UNCHANGED restVars
    \/ \E c \in Conns : \E f \in LoopFrames : LoopReceive(c, f)
    \/ \E c \in Conns : LoopRunHandler(c)
    \/ \E c \in Conns : DatastoreCall(c)
    \/ \E c \in Conns : DatastoreReturn(c)
    \/ \E c \in Conns : LoopDisconnect(c)
    \/ \E c \in Conns : LoopHeartbeat(c)
    \/ StoreChanges

SpecLoop == Init /\ [][NextLoop]_vars

\* The event loop runs every task that is ready; nothing bounds the time a
\* datastore call takes
SpecLoopFair ==
    /\ SpecLoop
    /\ \A c \in Conns : /\ WF_vars(LoopRunHandler(c))
                        /\ WF_vars(DatastoreCall(c))
                        /\ WF_vars(LoopDisconnect(c))

\* One connection opened through the endpoint or by a direct call of
\* handle_websocket, with any user id
EndpointFrames == { Frame("message", "q1"), Frame("bad_json", "") }

NextEndpoint ==
    \/ \E c \in Conns : \E u \in UserIds : WebsocketEndpoint(c, u) /\ UNCHANGED outerVars
    \/ \E c \in Conns : \E u \in UserIds : HandleWebsocket(c, u) /\ UNCHANGED outerVars
    \/ \E c \in Conns : ClientDisconnect(c) /\ UNCHANGED restVars
    \/ \E c \in Conns : \E f \in EndpointFrames : Receive(c, f) /\ UNCHANGED restVars
    \/ \E c \in Conns : RunHandler(c) /\ UNCHANGED restVars
    \/ \E c \in Conns : Disconnect(c) /\ UNCHANGED restVars

SpecEndpoint == Init /\ [][NextEndpoint]_vars

\* One connection receiving frames marked encrypted, decryptable or not
DecryptFrames ==
    { EncryptedFrame("message", "q1", p) : p \in {"ok", "bad"} }
    \cup { EncryptedFrame("session_update", "ok", p) : p \in {"ok", "bad"} }
    \cup { EncryptedFrame("heartbeat", "", "bad"), Frame("message", "q2") }

NextDecrypt ==
    \/ ClientDisconnect(1) /\ UNCHANGED restVars
    \/ HandleWebsocket(1, "u1") /\ UNCHANGED outerVars
    \/ \E f \in DecryptFrames : Receive(1, f) /\ UNCHANGED restVars
    \/ RunHandler(1) /\ UNCHANGED restVars
    \/ Disconnect(1) /\ UNCHANGED restVars
    \/ HeartbeatTick(1) /\ UNCHANGED restVars

SpecDecrypt == Init /\ [][NextDecrypt]_vars

\* send_event applied to every event type and every serialized data
NextWire ==
    \/ \E type \in EventTypes : \E data \in Texts : Serialize(1, type, data)
    \/ PeerDecrypt(1)
    \/ Consumed

SpecWire == Init /\ [][NextWire]_vars

NextAgent ==
    \/ \E q \in QueryCalls : \E sid \in SessionIds : GetOrCreateSession(q, sid)
    \/ \E q \in QueryCalls : FinishQuery(q)
    \/ \E sid \in SessionIds : SessionUpdate(sid)
    \/ CleanupInactiveSessions
    \/ ExpiredSessionsCleanup
    \/ Shutdown

\* The agent with a datastore that is reachable
SpecAgent == Init /\ [][NextAgent]_vars

\* The agent serving one session, with a datastore that comes and goes
NextAgentOutage ==
    \/ \E q \in QueryCalls : GetOrCreateSession(q, "s1")
    \/ \E q \in QueryCalls : FinishQuery(q)
    \/ SessionUpdate("s1")
    \/ CleanupInactiveSessions
    \/ ExpiredSessionsCleanup
    \/ Shutdown
    \/ StoreChanges

SpecAgentOutage == Init /\ [][NextAgentOutage]_vars

\* The vector index with its ingestion and its searches
Limits == 1..MaxLimit

NextRetrieval ==
    \/ \E tenant \in Tenants, similarity \in Similarities, match \in KeywordMatches :
          StoreEmbedding(tenant, similarity, match)
    \/ \E tenant \in Tenants, limit \in Limits, rpc_ok \in BOOLEAN :
          SimilaritySearch(tenant, limit, rpc_ok)
    \/ \E tenant \in Tenants, limit \in Limits, semantic_ok \in BOOLEAN, keyword_ok \in BOOLEAN :
          HybridSearch(tenant, limit, semantic_ok, keyword_ok)
    \/ \E tenant \in Tenants, limit \in Limits, rpc_ok \in BOOLEAN :
          SearchMedicalKnowledge(tenant, limit, rpc_ok)
    \/ ResultsTaken

SpecRetrieval == Init /\ [][NextRetrieval]_vars

\* The patient search with its cache
NextPatients ==
    \/ \E name \in PatientNames, limit \in Limits, clinic \in Clinics \cup {NoClinic},
          db_ok \in BOOLEAN : SearchPatients(name, limit, clinic, db_ok)
    \/ PatientsTaken
    \/ ClockTick

SpecPatients == Init /\ [][NextPatients]_vars

\* The connections with their users, and broadcast requests over HTTP
NextBroadcast ==
    \/ \E c \in Conns : \E u \in Users : HandleWebsocket(c, u) /\ UNCHANGED outerVars
    \/ \E c \in Conns : ClientDisconnect(c) /\ UNCHANGED restVars
    \/ \E c \in Conns : Disconnect(c) /\ UNCHANGED restVars
    \/ \E admin_key \in RequestKeys, configured \in ConfiguredKeys :
          PostBroadcast(admin_key, configured)
             /\ UNCHANGED <<baseOuterVars, retrVars, cacheVars, maskVars, intentVars, ragVars>>
    \/ FanoutResume /\ UNCHANGED outerVars

SpecBroadcast == Init /\ [][NextBroadcast]_vars

\* The rows the data service formats for its users
NextMasking ==
    \/ \E role \in Roles, phone \in Phones, email \in Emails : ShowClient(role, phone, email)
    \/ \E role \in Roles, phone \in Phones : ShowAppointment(role, phone)

SpecMasking == Init /\ [][NextMasking]_vars

\* The websocket connections of the RAG agent
NextRagConnections ==
    \/ \E w \in Socks : \E sid \in SessionIds : RagConnect(w, sid)
    \/ \E w \in Socks : RagAccepted(w)
    \/ \E w \in Socks : RagDisconnect(w)

SpecRagConnections == Init /\ [][NextRagConnections]_vars

\* The calls of AgUiRagAgent.initialize
NextInitialize ==
    \/ \E k \in 1..NumCalls : \E direct \in BOOLEAN : Initialize(k, direct)
    \/ \E k \in 1..NumCalls : InitializeResume(k)
    \/ \E k \in 1..NumCalls : InitializeStep(k)

SpecInitialize == Init /\ [][NextInitialize]_vars

\* The texts the two services classify
NextIntent ==
    \/ \E text \in Texts31 : DetectIntent(text)
    \/ \E text \in Texts31 : ParseHealthcareIntent(text)
    \/ IntentTaken

SpecIntent == Init /\ [][NextIntent]_vars

(* ------------------------------ claims -------------------------------- *)
Last(seq) == seq[Len(seq)]

\* The positions of sent[c] holding an event of the given type emitted for inbound event k
EmittedFor(c, type, k) ==
    { i \in 1..Len(sent[c]) : sent[c][i].type = type /\ sent[c][i].re = k }

\* Inbound event k of connection c has been dispatched completely
Handled(c, k) ==
    /\ k <= Len(received[c])
    /\ \A i \in 1..Len(todo[c]) : todo[c][i].ev.k # k

\* A step in which connection c receives a frame
ReceiveStep(c) == Len(received'[c]) = Len(received[c]) + 1

\* A step in which an event of the given type is written to connection c
EmitStep(c, type) ==
    /\ Len(sent'[c]) = Len(sent[c]) + 1
    /\ Last(sent'[c]).type = type

\* C1: on one connection events are processed in receive order: every pending
\* handler call belongs to the frame received last (the dispatch of frame k is
\* over before frame k+1 is received), and the events emitted for inbound frames
\* appear on the wire in the order of those frames.
C1_ReceiveOrder ==
    \A c \in Conns :
        /\ \A i \in 1..Len(todo[c]) : todo[c][i].ev.k = Len(received[c])
        /\ \A i, j \in 1..Len(sent[c]) :
              (i < j /\ sent[c][i].re > 0 /\ sent[c][j].re > 0)
                  => sent[c][i].re <= sent[c][j].re

\* C1 witness: two messages were received and answered, the answers in order
C1_Witness ==
    /\ Len(received[1]) = 2
    /\ received[1][1].kind = "message" /\ received[1][2].kind = "message"
    /\ EmittedFor(1, "response", 1) # {}
    /\ EmittedFor(1, "response", 2) # {}
    /\ pc[1] = "recv"

\* C2 (as claimed): every message with non-empty content that has been dispatched on
\* a working connection got exactly one response event, computed from its content.
C2_ExactlyOneResponse ==
    \A c \in Conns : \A k \in 1..Len(received[c]) :
        (/\ received[c][k].kind = "message"
         /\ received[c][k].content # ""
         /\ Handled(c, k)
         /\ ws[c] = "open")
        => /\ Cardinality(EmittedFor(c, "response", k)) = 1
           /\ \A i \in EmittedFor(c, "response", k) :
                 sent[c][i].body = process_healthcare_query(received[c][k].content)

\* C5 (as claimed): the receive loop of a connection ends only when its transport
\* has failed; no inbound frame ends it on a working transport.
C5_OnlyTransportEndsLoop ==
    [][ \A c \in Conns :
          (pc[c] # "done" /\ pc'[c] = "done") => ws[c] # "open" ]_vars

\* C6 (as claimed): when a registered handler raises on a working connection, an
\* error event is sent back on that connection for the event being handled.
C6_HandlerErrorReported ==
    [][ \A c \in Conns :
          (/\ pc[c] = "handling"
           /\ todo[c] # << >>
           /\ todo'[c] = Tail(todo[c])
           /\ HandlerRaises(Head(todo[c]).h, Head(todo[c]).ev)
           /\ ws[c] = "open")
          => /\ EmitStep(c, "error")
             /\ Last(sent'[c]).re = Head(todo[c]).ev.k ]_vars

C8_CountMonotonic ==
    [][ \A c \in Conns :
          /\ message_count'[c] >= message_count[c]
          /\ EmitStep(c, "heartbeat") => message_count'[c] = message_count[c] + 1 ]_vars

\* C8 witness: a heartbeat was sent, the sends for a later message failed, and the
\* count stands at the number of events written
C8_Witness ==
    /\ \E i \in 1..Len(sent[1]) : sent[1][i].type = "heartbeat"
    /\ \E k \in 1..Len(received[1]) :
          /\ received[1][k].kind = "message"
          /\ Handled(1, k)
          /\ pc[1] = "recv"
          /\ EmittedFor(1, "response", k) = {}
    /\ message_count[1] = Len(sent[1])
    /\ message_count[1] >= 2

\* The session of connection c was registered and has left the registry
Ended(c) == hb[c] # "none" /\ ~InRegistry(c)

\* A step of the sweep that closes the connection of session c, or removes c from
\* the registry
EvictStep(c) ==
    /\ sweep' # sweep
    /\ \/ ws[c] = "open" /\ ws'[c] = "closed"
       \/ InRegistry(c) /\ ~InRegistry(c)'

\* C4: once a session has left the registry (its receive loop ended on a
\* disconnect or a failure, or the sweep evicted it) its heartbeat task stops: a
\* receive loop that has ended leaves no running heartbeat task, a session that is
\* out of the registry eventually has none, and no heartbeat event is written for
\* a session that is not in the registry.
C4_HeartbeatEndsWithSession ==
    /\ [](\A c \in Conns : pc[c] = "done" => hb[c] # "running")
    /\ [][ \A c \in Conns : EmitStep(c, "heartbeat") => InRegistry(c) ]_vars
    /\ \A c \in Conns : Ended(c) ~> (hb[c] # "running")

\* C4 witness: the sweep evicted a session whose heartbeat task was running, and
\* the task was cancelled when the receive loop ended
C4_Witness ==
    \E c \in Conns :
        /\ c \in sweep.stale
        /\ sweep.pc = "idle"
        /\ Ended(c)
        /\ pc[c] = "done"
        /\ hb[c] = "cancelled"

\* C9 (as claimed): when a sweep has returned, every session it found idle beyond
\* the threshold has its connection closed and is out of the registry.
C9_StaleSessionsGone ==
    sweep.pc = "idle" =>
        \A s \in sweep.stale : ~InRegistry(s) /\ ws[s] = "closed"

\* C10 (as claimed): the sweep evicts a session only if, at that moment, its last
\* activity lies further back than the threshold.
C10_OnlyIdleEvicted ==
    [][ \A c \in Conns : EvictStep(c) => Inactive(c) ]_vars

\* C3: a connect call made while active_connections holds max_connections entries
\* or more closes the websocket with code 1008 and the capacity reason, leaves
\* active_connections and connection_metadata as they were, and the refused
\* websocket is never accepted, welcomed or registered.
Refused(w) == cpc[w].at = "refused"

ConnectCallAtLimit(w) ==
    /\ cpc[w].at = "idle"
    /\ cpc'[w].at # "idle"
    /\ Len(active_connections) >= max_connections

C3_RefusedAtCapacity ==
    /\ [][\A w \in Socks : ConnectCallAtLimit(w) =>
            /\ Refused(w)'
            /\ wsock'[w].close_code = 1008
            /\ wsock'[w].close_reason = "Maximum connections reached"
            /\ active_connections' = active_connections
            /\ connection_metadata' = connection_metadata]_vars
    /\ [](\A w \in Socks : Refused(w) =>
            /\ ~wsock[w].accepted
            /\ wsock[w].sent = << >>
            /\ \A i \in 1..Len(active_connections) : active_connections[i].ws # w)

C3_Witness ==
    \E w \in Socks :
        /\ Refused(w)
        /\ wsock[w].close_code = 1008
        /\ Len(active_connections) = max_connections
        /\ Cardinality(connection_metadata) = max_connections
        /\ \A v \in Socks \ {w} : wsock[v].sent = << "connection_established" >>


\* C11 (as claimed): a fan-out call that has ended did not raise, and it attempted
\* every session it targeted that is still registered, whatever sends failed.
FanoutEnded == fanout.pc \in {"returned", "raised"}

C11_FanoutBestEffort ==
    FanoutEnded =>
        /\ fanout.pc = "returned"
        /\ \A s \in fanout.targets : InRegistry(s) => s \in fanout.tried


\* The heartbeat events written on connection c
HeartbeatsSent(c) == Len(SelectSeq(sent[c], LAMBDA e : e.type = "heartbeat"))

Connected(c) == InRegistry(c) /\ ws[c] = "open"

TerminalStates == {"disconnected", "error"}

AllowedTransitions ==
    { <<"none", "connecting">>, <<"none", "connected">>, <<"connecting", "connected">>,
      <<"connected", "authenticated">>, <<"connected", "disconnected">>,
      <<"authenticated", "disconnected">> }
    \cup { <<from, "error">> : from \in {"connecting", "connected", "authenticated"} }

\* C13 (as claimed): a session's state changes only along CONNECTING -> CONNECTED
\* -> AUTHENTICATED -> DISCONNECTED or into ERROR, the session of a connection
\* whose handler has ended is in DISCONNECTED or ERROR, and a session in one of
\* these two states stays in it.
C13_StateMachine ==
    /\ [](\A c \in Conns :
            (pc[c] = "done" /\ state[c] # "none") => state[c] \in TerminalStates)
    /\ [][ \A c \in Conns :
             state'[c] # state[c] => <<state[c], state'[c]>> \in AllowedTransitions ]_vars
    /\ [][ \A c \in Conns :
             state[c] \in TerminalStates => state'[c] = state[c] ]_vars


\* C14 (as claimed): while the handler of one connection is inside a datastore
\* call, the heartbeat of any other connection whose timer is due can be sent and
\* a frame of any other connection that waits in receive_text can be taken in.
C14_OthersNotBlocked ==
    \A c \in Conns : \A d \in Conns \ {c} :
        loop = c =>
            /\ (hb[d] = "running" /\ beats < MaxBeats) => ENABLED LoopHeartbeat(d)
            /\ (pc[d] = "recv" /\ ws[d] = "open" /\ nframes < MaxFrames)
                  => ENABLED (\E f \in LoopFrames : LoopReceive(d, f))

\* An event of the query handler for inbound event k of connection c
QueryAnswered(c, k) ==
    \E i \in 1..Len(sent[c]) :
        /\ sent[c][i].re = k
        /\ sent[c][i].type \in {"response", "error"}
        /\ sent[c][i].body # "Message received"

\* C15 (as claimed): the query handler's call for a message is always followed by
\* a response or an error event for that message unless the connection goes
\* away, and the receive loop always comes back from handling an event.
C15_MessageAnswered ==
    /\ \A c \in Conns : \A k \in 1..MaxFrames :
          (AtDatastoreCall(c) /\ Head(todo[c]).ev.k = k)
             ~> (QueryAnswered(c, k) \/ ws[c] # "open")
    /\ \A c \in Conns : (pc[c] = "handling") ~> (pc[c] # "handling")


\* A step of the task that runs broadcast_to_all or send_to_user
FanoutStep == fanout' # fanout

\* A step that writes a field of the session of connection c
FieldsWritten(c) ==
    \/ message_count'[c] # message_count[c]
    \/ last_activity'[c] # last_activity[c]
    \/ state'[c] # state[c]

\* C16 (as claimed): no step of a fan-out (broadcast_to_all, send_to_user), which
\* runs in the task of its caller, writes message_count, last_activity or state of
\* a session.
C16_SingleWriter == [][ FanoutStep => \A c \in Conns : ~FieldsWritten(c) ]_vars


(* C17: whatever queries and session updates were processed, a session's   *)
(* conversation_history, cached or stored, holds at most HistoryCap turns;  *)
(* they are consecutive turns in the order they were appended, the cached   *)
(* one ending with the latest turn appended; and appending a turn to a full *)
(* history evicts exactly its oldest turn.                                  *)
Consecutive(h) == \A i \in 1..(Len(h) - 1) : h[i + 1] = h[i] + 1

Histories == { agent_sessions[sid] : sid \in DOMAIN agent_sessions }
                 \cup { rag_agent_sessions[sid] : sid \in DOMAIN rag_agent_sessions }

TurnAppended(sid) == appended'[sid] = appended[sid] + 1

QueryProcessed(q) ==
    /\ qcall[q].at = "generating"
    /\ qcall'[q].result = "ok"
    /\ qcall[q].session_id \in DOMAIN rag_agent_sessions

TurnStored(sid) ==
    /\ TurnAppended(sid)
    /\ sid \in DOMAIN rag_agent_sessions'
    /\ rag_agent_sessions'[sid] # << >>
    /\ Last(rag_agent_sessions'[sid]) = appended'[sid]

C18_EveryQueryStored ==
    [][ \A q \in QueryCalls : QueryProcessed(q) => TurnStored(qcall[q].session_id) ]_vars

(* C19: when the datastore call made for a message raises, on a connection *)
(* that is open, the handler sends one response event for that message,     *)
(* made of the error card the data service returned, and the connection's   *)
(* receive loop goes on: nothing is raised into it.                         *)
DatastoreRaised(c) == loop = c /\ loop' = 0 /\ store = "down" /\ SendOK(c)

BlankIds == {"", " "}

C21_DecryptFailureReported ==
    \A c \in Conns : \A k \in 1..Len(received[c]) :
        (received[c][k].encrypted = "bad" /\ Handled(c, k) /\ ws[c] = "open")
            => /\ \E i \in EmittedFor(c, "error", k) : sent[c][i].body = "DECRYPT_FAILED"
               /\ pc[c] \in {"recv", "handling"}

C23_ConnectionEventFirst ==
    \A c \in Conns :
        /\ sent[c] # << >> => sent[c][1] = Out("connection", "connected", 0)
        /\ InRegistry(c) => sent[c] # << >>
        /\ hb[c] # "none" => sent[c] # << >>

\* A connection on which a response, a heartbeat and an error event were sent
C23_Witness ==
    \E c \in Conns :
        \A t \in {"response", "heartbeat", "error"} :
            \E i \in 2..Len(sent[c]) : sent[c][i].type = t

(* C24 (as claimed): a broadcast call never ends with an exception, and when *)
(* it has ended every client whose send raised during it is gone from        *)
(* active_connections and connection_metadata; a client whose personal       *)
(* message could not be sent is not registered once the call is over.        *)
C24_FailedSendsRemoved ==
    /\ bcast.pc # "raised"
    /\ bcast.pc = "returned" =>
         \A w \in bcast.raised :
            /\ ~Registered(w)
            /\ GeneratedId(w) \notin connection_metadata

C26_TenantIsolation ==
    \A i \in 1..Len(retrieved.results) :
        retrieved.results[i].tenant_id = retrieved.tenant

(* C30 (as claimed): what hybrid_search returns is sorted by descending      *)
(* combined_score and has at most limit entries, and a document of          *)
(* similarity 1.0 without keyword match (0.7 * 1.0 + 0.3 * 0.0 = 0.70) comes  *)
(* after a document of similarity 0.6 matching every term                   *)
(* (0.7 * 0.6 + 0.3 * 1.0 = 0.72).  Scores are in tenths, combined scores in  *)
(* hundredths.                                                               *)
C30_HybridRanking ==
    retrieved.call = "hybrid_search" =>
        LET results == retrieved.results IN
        /\ Len(results) <= retrieved.limit
        /\ \A i \in 1..Len(results) - 1 :
              results[i].combined_score >= results[i + 1].combined_score
        /\ \A i, j \in 1..Len(results) :
              ( /\ results[i].similarity = 10 /\ results[i].match = 0
                /\ results[j].similarity = 6 /\ results[j].match = 10 ) => j < i

(* C27 (as claimed): search_patients answers from its cache only with an     *)
(* entry younger than the TTL that was stored for the same clinic scope, and *)
(* a request scoped to a clinic only gets rows of that clinic.               *)
C27_CacheScoped ==
    /\ served.outcome = "cached" =>
          /\ served.age < cache_ttl
          /\ served.stored_for = served.clinic
    /\ served.clinic \in Clinics =>
          \A i \in 1..Len(served.rows) : served.rows[i].clinic_id = served.clinic

(* C28 (as claimed): broadcast_to_all is started for a broadcast request     *)
(* only when the request carries an admin_key and the key is the server's;  *)
(* a refused request changes no fan-out and sends nothing.                   *)
C28_AdminOnly ==
    [][ /\ fanout'.n > fanout.n =>
             /\ posted'.admin_key # NoKey
             /\ posted'.admin_key = posted'.configured
        /\ (posted' # posted /\ posted'.status = "403") =>
             /\ posted'.admin_key # posted'.configured
             /\ UNCHANGED <<fanout, sent>> ]_vars

(* C29 (as claimed): in every formatted row a phone or e-mail value that is  *)
(* not empty is changed by the masking for a role without full access and   *)
(* is given as stored for a role with full access, and a row formatted for  *)
(* the same role and the same phone as the row before it shows the same     *)
(* phone.                                                                    *)
C29_ContactsMasked ==
    [][ /\ shown'.role \notin FullAccessRoles =>
             /\ shown'.phone # << >> => shown'.out_phone # shown'.phone
             /\ shown'.email # << >> => shown'.out_email # shown'.email
        /\ shown'.role \in FullAccessRoles =>
             /\ shown'.out_phone = shown'.phone
             /\ shown'.out_email = shown'.email
        /\ (shown.op # "none" /\ shown'.role = shown.role /\ shown'.phone = shown.phone) =>
             shown'.out_phone = shown.out_phone ]_vars

(* ---- C31: intent priority ------------------------------------------------ *)
\* The kinds of intent in the claimed order of priority
IntentKinds == <<"patient", "appointment", "financial", "schedule", "report", "general">>

\* The kind of the intent a function returned
KindOf(intent) ==
    CASE intent \in {"CLIENT_SEARCH", "search_clients"} -> "patient"
      [] intent \in {"APPOINTMENT_QUERY", "upcoming_appointments"} -> "appointment"
      [] intent \in {"FINANCIAL_QUERY", "financial_summary"} -> "financial"
      [] intent = "SCHEDULE_MANAGEMENT" -> "schedule"
      [] intent = "REPORT_GENERATION" -> "report"
      [] OTHER -> "general"

\* The terms by which the classifying function knows a kind of intent
TermsOf(by, kind) == IF by = "_detect_intent" THEN detect_terms(kind) ELSE parse_terms(kind)

\* The kinds of intent of which the text, read without regard to case, has a term
KindsIn(by, text) ==
    { i \in 1..5 : AnyIn(TermsOf(by, IntentKinds[i]), lower(text)) }

\* The first of them in the order of priority, "general" when there is none
HighestPriority(by, text) ==
    IF KindsIn(by, text) = {} THEN "general"
    ELSE IntentKinds[CHOOSE i \in KindsIn(by, text) : \A j \in KindsIn(by, text) : i <= j]

(* C31 (as claimed): the intent of a classified text is of the kind that is   *)
(* first, in the order patient > appointment > financial > schedule > report  *)
(* > general, among the kinds of which the text has a term in either case.    *)
C31_HighestPriorityIntent ==
    classified.by # "none" =>
        KindOf(classified.intent) = HighestPriority(classified.by, classified.text)

\* _detect_intent follows the order, and both functions give the intent of the
\* text in lower case.
DetectIntentOrdered ==
    /\ classified.by = "_detect_intent" =>
           KindOf(classified.intent) = HighestPriority(classified.by, classified.text)
    /\ classified.by = "_detect_intent" =>
           classified.intent = detect_intent(lower(classified.text))
    /\ classified.by = "_parse_healthcare_intent" =>
           classified.intent = parse_healthcare_intent(lower(classified.text))

(* ---- C32: capacity -------------------------------------------------------- *)
(* C32 (as claimed): in every reachable state of the manager the number of    *)
(* active connections is at most max_connections.                             *)
C32_WithinCapacity ==
    Len(active_connections) <= max_connections

(* ---- C33: a fan-out and a changing registry ------------------------------- *)
(* C33 (as claimed): a broadcast that is suspended in a send is not ended by  *)
(* an exception when it resumes, whatever was registered or removed in the    *)
(* meantime, and the ping task, once running, stops only by being cancelled.  *)
C33_FanoutNotAborted ==
    [][ /\ bcast.pc = "sending" => bcast'.pc # "raised"
        /\ ping_task = "running" => ping_task' \in {"running", "cancelled"} ]_vars

(* ---- C34: the handler's session leaves the registry ----------------------- *)
\* handle_websocket has returned for connection c
Returned34(c) == pc[c] = "done"

(* C34: once handle_websocket has returned for a connection, whatever ended   *)
(* it, the connection's session id is not in the registry.                    *)
C34_ReturnedUnregistered ==
    \A c \in Conns : Returned34(c) => ~InRegistry(c)

\* A handler that returned after its session had been registered and had taken
\* a frame, while another session is registered, and a handler that returned
\* because a frame was no JSON object
C34_Witness ==
    \E c, d \in Conns :
        /\ Returned34(c)
        /\ sent[c] # << >>
        /\ \E i \in 1..Len(received[c]) : EscapesLoop(received[c][i])
        /\ InRegistry(d)

(* ---- C35: registration after the connection event ------------------------- *)
\* The step on which handle_websocket leaves create_session for connection c
Created35(c) == pc[c] = "new" /\ pc'[c] # "new"

(* C35: a session is in the registry, and has a heartbeat task, only when its *)
(* connection event is out; when handle_websocket is called on a transport on *)
(* which the connection event cannot be sent, the handler ends with nothing   *)
(* sent, nothing counted, no session registered and no heartbeat task, and    *)
(* the registry as it was; on an open transport the session is registered     *)
(* with the connection event as its only frame.                               *)
C35_RegisteredAfterSend ==
    /\ [](\A c \in Conns :
            (InRegistry(c) \/ hb[c] # "none") =>
                sent[c] # << >> /\ Head(sent[c]) = ConnectionEvent)
    /\ [][ \A c \in Conns : Created35(c) =>
             IF ws[c] = "open"
             THEN /\ sent'[c] = << ConnectionEvent >>
                  /\ sessions' = Append(sessions, c)
                  /\ hb'[c] = "running"
             ELSE /\ pc'[c] = "done"
                  /\ sessions' = sessions
                  /\ hb'[c] = "none"
                  /\ sent'[c] = << >>
                  /\ message_count'[c] = 0
                  /\ state'[c] = state[c] ]_vars

\* A handler that ended in create_session because the peer was gone, next to a
\* registered session
C35_Witness ==
    \E c, d \in Conns :
        /\ pc[c] = "done"
        /\ sent[c] = << >>
        /\ hb[c] = "none"
        /\ ~InRegistry(c)
        /\ InRegistry(d)
        /\ hb[d] = "running"

(* ---- C36: one registry entry per open connection ------------------------- *)
\* The receive loop of handle_websocket_connection is running on websocket w
RagOpen(w) == rpc[w].at = "open"

(* C36 (as claimed): every websocket of the RAG agent whose receive loop is   *)
(* running is the entry of active_connections under its session id, whatever  *)
(* other connections with the same session id arrived or ended.               *)
C36_OpenIsRegistered ==
    \A w \in Socks : RagOpen(w) => rag_connections[rpc[w].session_id] = w

\* The same for WebSocketManager: every websocket that connect registered and
\* whose peer is there is a value of active_connections.
ManagerOpenIsRegistered ==
    \A w \in Socks : (cpc[w].at = "connected" /\ wsock[w].alive) => Registered(w)

(* ---- C37: a failed send leaves the session's fields ----------------------- *)
\* A step on which an event is written to connection c
SentStep(c) == sent'[c] # sent[c]

\* _handle_event stamps the activity when a frame is dispatched
DispatchStep(c) == received'[c] # received[c]

(* C37: message_count and last_activity of a session change only on a step   *)
(* that writes an event to its connection, which raises the count by one and  *)
(* sets the stamp to the time of the send (the stamp is also set when a frame  *)
(* is dispatched); a send that fails leaves both as they were and its failure *)
(* reaches the caller: the heartbeat loop stops, create_session ends the       *)
(* handler, the error answer to a bad frame ends the receive loop.             *)
C37_FailedSendLeavesFields ==
    [][ \A c \in Conns :
          /\ SentStep(c) =>
                /\ ws[c] = "open"
                /\ message_count'[c] = message_count[c] + 1
                /\ last_activity'[c] = now
          /\ ~SentStep(c) =>
                /\ message_count'[c] = message_count[c]
                /\ last_activity'[c] # last_activity[c] => DispatchStep(c)
          /\ (hb[c] = "running" /\ hb'[c] = "stopped") =>
                /\ ws[c] # "open"
                /\ ~SentStep(c)
                /\ last_activity'[c] = last_activity[c]
          /\ (pc[c] = "new" /\ pc'[c] # "new" /\ ws[c] # "open") => pc'[c] = "done"
          /\ (DispatchStep(c) /\ ParseErrorCode(Last(received'[c])) # ""
                /\ ws[c] # "open") => pc'[c] = "done" /\ ~SentStep(c) ]_vars

\* A heartbeat could not be sent some time after the last event was written:
\* the loop has stopped, the count is the number of events written and the
\* stamp is older than the clock
C37_Witness ==
    \E c \in Conns :
        /\ hb[c] = "stopped"
        /\ message_count[c] = Len(sent[c])
        /\ message_count[c] >= 1
        /\ last_activity[c] < now

(* ---- C38: handler order --------------------------------------------------- *)
\* The handlers of todo, in the order of their calls
HandlerNames(calls) == [i \in 1..Len(calls) |-> calls[i].h]

\* _handle_event makes a handler call on connection c
CallStep(c) == pc[c] = "handling" /\ todo'[c] # todo[c]

Initializers == { k \in 1..NumCalls : icall[k].at = "returned" /\ icall[k].ran = InitSteps }

\* Call k gets past the lock on this step
EnterStep(k) == icall[k].at \in {"idle", "raised", "waiting"} /\ icall'[k].at \in {"running", "returned"}

WarmWhenInitialized ==
    \A k \in Initializers : icall[k].warm

(* ---- C40: the two dicts of the manager have the same keys ---------------- *)
\* The keys of active_connections
ConnectionKeys == { active_connections[i].id : i \in 1..Len(active_connections) }

(* C40: in every reachable state of the manager the keys of                   *)
(* active_connections are the keys of connection_metadata, and no key is      *)
(* there twice.                                                                *)
C40_SameKeys ==
    /\ ConnectionKeys = connection_metadata
    /\ Cardinality(ConnectionKeys) = Len(active_connections)

\* A broadcast that removed a client whose send failed has returned, and after
\* it close_all_connections closed what was left and cleared both dicts
C40_Witness ==
    /\ bcast.pc = "returned"
    /\ bcast.raised # {}
    /\ closer.pc = "returned"
    /\ closer.registered # {}
    /\ active_connections = << >>
    /\ connection_metadata = {}

====
